---- MODULE Spec2Model ----
(***************************************************************************)
(* Crawl orchestration of idx-copytrading: BrokerCrawler (session,         *)
(* _send_dash_request, fetch_broker_data, checkpoint file,                 *)
(* crawl_all_brokers) and the two entry points that drive it               *)
(* (cron_runner.run_daily_crawl and broker_crawler.main).                  *)
(***************************************************************************)
EXTENDS Integers, Sequences, FiniteSets, TLC

\* ---------------------------------------------------------------- bounds
MaxBrokers == 3        \* longest entity list explored
MaxRows == 2           \* rows of a response that carries a table
MaxClock == 150        \* horizon of the wall clock, minutes
MaxRetriesBound == 3   \* largest max_retries explored by SpecSend
MaxBaseDelay == 2      \* largest retry_base_delay explored by SpecSend
MaxRateBrokers == 5    \* longest entity list explored by SpecRate
MaxDays == 3           \* calendar days explored by SpecDays
MaxBatch == 2          \* longest table or list of trades of SpecStore
MaxSymbolLen == 4      \* longest raw symbol explored by SpecStore

\* ------------------------------------------------------ program constants
max_retries_default == 3
retry_base_delay_default == 1
retry_max_delay_default == 10
session_max_age_minutes == 25
CheckpointMaxAgeMinutes == 120
SuccessRatePercent == 80

VARIABLES
    config,               \* BrokerCrawlerConfig of the process
    brokers,              \* BROKER_CODES, the entity list
    now,                  \* wall clock, minutes
    runs,                 \* 0 until the first process starts, then 1
    pc,                   \* position of the running process ("idle": none)
    entry,                \* "cron" (run_daily_crawl), "cli" (main), "fetch"
    resume,               \* the resume argument of crawl_all_brokers
    logged_in,            \* BrokerCrawler._logged_in
    session_created_at,   \* BrokerCrawler._session_created_at (-1: None)
    checkpoint,           \* crawl_all_brokers: the loaded checkpoint
    start_time,           \* crawl_all_brokers: start_time
    idx,                  \* crawl_all_brokers: 0-based index of the entity
    all_data,             \* crawl_all_brokers: all_data
    successful_brokers,   \* crawl_all_brokers: successful_brokers
    failed_brokers,       \* crawl_all_brokers: failed_brokers
    rows,                 \* what fetch_broker_data gave for brokers[idx]
    attempt,              \* _send_dash_request: loop variable
    response,             \* _send_dash_request: returned value
    file,                 \* the checkpoint file on disk
    written_by,           \* entry point whose process wrote the file
    result,               \* return value of crawl_all_brokers
    crawl_log,            \* crawl_log table: crawl_date and status per entry
    cron,                 \* run_daily_crawl: its result dict
    db,                   \* stored trades and aggregates
    trace,                \* observations of one _send_dash_request call
    hist,                 \* observations of one process (no effect on it)
    raw,                  \* _parse_table_data: its data argument
    parsed,               \* _parse_table_data: what the call gave
    trades,               \* insert_broker_trades: its trades argument
    valid_trades,         \* insert_broker_trades: valid_trades
    broker_trades,        \* the rows of table broker_trades
    inserted,             \* insert_broker_trades: what the call gave
    api_cache,            \* api.py: _api_cache
    api                   \* observations of the calls of cached endpoints

crawlerVars == <<logged_in, session_created_at>>
sendVars == <<attempt, response>>
loopVars == <<checkpoint, start_time, idx, all_data, successful_brokers,
              failed_brokers, rows, result>>
cronVars == <<crawl_log, cron, db>>
envVars == <<config, brokers>>
storeVars == <<raw, parsed, trades, valid_trades, broker_trades, inserted,
               api_cache, api>>
vars == <<config, brokers, now, runs, pc, entry, resume, logged_in,
          session_created_at, checkpoint, start_time, idx, all_data,
          successful_brokers, failed_brokers, rows, attempt, response, file,
          written_by,
          result, crawl_log, cron, db, trace, hist, raw, parsed, trades,
          valid_trades, broker_trades, inserted, api_cache, api>>

\* ------------------------------------------------------------- helpers
Min(a, b) == IF a <= b THEN a ELSE b

AllCodes == <<"A", "B", "C", "D", "E", "F">>

NoCheckpoint == [kind |-> "none"]
AbsentFile == [kind |-> "absent"]
TruncatedFile == [kind |-> "truncated"]
\* A checkpoint file the program cannot use: cut short by a kill
\* (truncated), not JSON, JSON that is not an object, an object without
\* started_at, an object whose started_at is not a string, a file that
\* open() refuses.
CorruptFiles == {[kind |-> k] : k \in {"truncated", "not_json", "not_object",
                                       "no_started_at", "started_at_not_str",
                                       "unreadable"}}
\* An exception left _load_checkpoint.
Raised == [kind |-> "raised"]
NoResponse == [kind |-> "None"]
NoRows == [kind |-> "rows", n |-> 0]
NoResult == [kind |-> "none"]

\* What the remote endpoint can do with one POST of _send_dash_request.
Bodies == {[kind |-> "tables", n |-> n] : n \in {0, MaxRows}}
              \cup {[kind |-> "no_response_key"], [kind |-> "null_response"]}
NoBody == [kind |-> "no_response_key"]
Outcomes == {"ok", "auth", "server_error", "timeout", "connection_error",
             "client_error", "request_error", "bad_json"}
Transient == {"server_error", "timeout", "connection_error"}
NonRetryable == {"client_error", "request_error", "bad_json"}
LoginOutcomes == {"ok", "rejected", "network_error"}

\* trace: POSTs sent, session refreshes, backoff sleeps, and whether a
\* refreshed session is still waiting for its resend. It is kept for the
\* calls of a direct caller of fetch_broker_data (entry = "fetch").
EmptyTrace == [posts |-> 0, refreshes |-> 0, delays |-> <<>>,
               resend_pending |-> FALSE, last_outcome |-> "none"]

\* hist: the indices this process called fetch_broker_data for, those
\* whose fetch gave rows (ok) or none (failed), the rows fetched, and the
\* checkpoint a load finds when crawl_all_brokers starts, and the call
\* of _clear_checkpoint by which this process removed an existing file
\* ("fresh": main --fresh, "finish": the end of crawl_all_brokers), what
\* is_trading_day gave run_daily_crawl, its call of db.connect()
\* ("no": not called, "ok": connected, "failed": returned False),
\* whether the login() of the entry point sent a request, the indices
\* after which the loop called time.sleep, what a direct call of
\* _is_session_expired returned ("none": no such call), and the indices
\* for which fetch_broker_data returned without calling
\* _send_dash_request.
EmptyHist == [fetched |-> <<>>, ok |-> <<>>, failed |-> <<>>,
              new_data |-> <<>>, found |-> NoCheckpoint,
              found_by |-> "none", cleared |-> "none",
              trading_day |-> FALSE, connected |-> "no",
              login_sent |-> FALSE, sleeps |-> <<>>, expired |-> "none",
              unsent |-> <<>>]

NoCron == [status |-> "none", crawl_log_id |-> 0, rows_crawled |-> 0,
           successful_brokers |-> 0, failed_brokers |-> 0, exit_code |-> -1]

\* The tables besides crawl_log: the stored trade rows, whether any
\* aggregation has run, and period_end of the aggregates of period
\* "today" (-1: there are none).
EmptyDb == [trades |-> {}, aggregates |-> FALSE, today_end |-> -1]

\* No call of _parse_table_data or insert_broker_trades so far.
NoRaw == <<>>
NoParsed == [kind |-> "none"]
NoInserted == [kind |-> "none"]
\* api.py is not loaded in a process that crawls.
NoCache == [kind |-> "none"]
StoreIdle ==
    /\ api_cache = NoCache
    /\ api = NoCache
    /\ raw = NoRaw
    /\ parsed = NoParsed
    /\ trades = <<>>
    /\ valid_trades = <<>>
    /\ broker_trades = {}
    /\ inserted = NoInserted

\* Minutes of a calendar day.
DayMinutes == 24 * 60

\* date.today() at wall-clock minute t.
Today(t) == t \div DayMinutes

\* One crawl_log row.
LogEntry(d, st) == [crawl_date |-> d, status |-> st]

\* The statuses of the crawl_log rows, oldest first.
Statuses(log) == [k \in DOMAIN log |-> log[k].status]

\* ------------------------------------------------------------- session
Session(li, created) == [logged_in |-> li, created_at |-> created]

\* A login() that looks at the credentials only after the handshake.
login_checks_credentials_late(s, lo, t) ==
    IF lo = "ok" /\ config.has_credentials
      THEN [ok |-> TRUE, s |-> Session(TRUE, t), sent |-> TRUE]
      ELSE [ok |-> FALSE, s |-> s, sent |-> TRUE]

\* login(): True only with credentials and a handshake that went through;
\* sent: whether it sent a request to the site.
login(s, lo, t) ==
    IF ~config.has_credentials THEN [ok |-> FALSE, s |-> s, sent |-> FALSE]
    ELSE IF lo = "ok" THEN [ok |-> TRUE, s |-> Session(TRUE, t), sent |-> TRUE]
    ELSE [ok |-> FALSE, s |-> s, sent |-> TRUE]

\* An age test that lets a session live one minute longer.
is_session_expired_strict(s, t) ==
    IF s.created_at = -1 THEN TRUE
    ELSE t - s.created_at > session_max_age_minutes

is_session_expired(s, t) ==
    IF s.created_at = -1 THEN TRUE
    ELSE t - s.created_at >= session_max_age_minutes

\* A refresh that forgets the creation time but keeps the flag.
refresh_session_keeps_flag(s, lo, t) ==
    login(Session(s.logged_in, -1), lo, t)

refresh_session(s, lo, t) == login(Session(FALSE, -1), lo, t)

\* An _ensure_session_valid that never looks at the age of the session.
ensure_session_valid_ignores_age(s, lo, t) ==
    [ok |-> s.logged_in, s |-> s, logins |-> 0]

\* An _ensure_session_valid that logs in again when it finds the crawler
\* logged out.
ensure_session_valid_relogs(s, lo, t) ==
    IF ~s.logged_in \/ is_session_expired(s, t)
    THEN LET r == refresh_session(s, lo, t)
         IN  [ok |-> r.ok, s |-> r.s, logins |-> 1]
    ELSE [ok |-> TRUE, s |-> s, logins |-> 0]

\* _ensure_session_valid: its return value, the session it leaves and the
\* number of login() calls it made.
ensure_session_valid(s, lo, t) ==
    IF ~s.logged_in THEN [ok |-> FALSE, s |-> s, logins |-> 0]
    ELSE IF is_session_expired(s, t)
    THEN LET r == refresh_session(s, lo, t)
         IN  [ok |-> r.ok, s |-> r.s, logins |-> 1]
    ELSE [ok |-> TRUE, s |-> s, logins |-> 0]

\* ------------------------------------------------- _send_dash_request
Observe(t) == IF entry = "fetch" THEN t ELSE EmptyTrace

\* A backoff that forgets the cap.
BackoffDelayUncapped(a) == config.retry_base_delay * (2 ^ a)

\* delay = min(retry_base_delay * 2 ** attempt, retry_max_delay)
BackoffDelay(a) ==
    Min(config.retry_base_delay * (2 ^ a), config.retry_max_delay)

\* A classification that treats a plain 4xx like a server error.
ClassifyRetriesClientError(o) ==
    CASE o = "ok" -> "return_json"
      [] o = "auth" -> "refresh"
      [] o \in Transient \cup {"client_error"} -> "backoff"
      [] o = "request_error" -> "break"
      [] o = "bad_json" -> "return_none"

\* What one loop iteration does with the outcome of its POST.
Classify(o) ==
    CASE o = "ok" -> "return_json"
      [] o = "auth" -> "refresh"
      [] o \in Transient -> "backoff"
      [] o \in {"client_error", "request_error"} -> "break"
      [] o = "bad_json" -> "return_none"

\* A retry that does not use up an attempt.
NextAttemptNotCounted(a) == a

\* for attempt in range(max_retries): the value of the next iteration.
NextAttempt(a) == a + 1

\* The 401/403 branch: refresh when retry_on_auth_fail, continue on success.
AuthBranch(lo) ==
    LET r == refresh_session(Session(logged_in, session_created_at), lo, now)
    IN  /\ logged_in' = r.s.logged_in
        /\ session_created_at' = r.s.created_at
        /\ IF r.ok
             THEN /\ attempt' = NextAttempt(attempt)
                  /\ pc' = "send"
                  /\ response' = response
             ELSE /\ attempt' = attempt
                  /\ pc' = "sent"
                  /\ response' = NoResponse
        /\ trace' = Observe([trace EXCEPT !.posts = @ + 1,
                                  !.refreshes = @ + 1,
                                  !.resend_pending = r.ok,
                                  !.last_outcome = "auth"])

BackoffBranch(o) ==
    /\ attempt' = NextAttempt(attempt)
    /\ pc' = "send"
    /\ trace' = Observe([trace EXCEPT !.posts = @ + 1,
                              !.delays = Append(@, [attempt |-> attempt,
                                     after |-> o,
                                     delay |-> BackoffDelay(attempt)]),
                              !.resend_pending = FALSE,
                              !.last_outcome = o])
    /\ UNCHANGED <<response, crawlerVars>>

ReturnBranch(o, r) ==
    /\ response' = r
    /\ pc' = "sent"
    /\ trace' = Observe([trace EXCEPT !.posts = @ + 1,
                              !.resend_pending = FALSE,
                              !.last_outcome = o])
    /\ UNCHANGED <<attempt, crawlerVars>>

\* One iteration of the retry loop: one POST and the handling of its outcome.
SendAttempt(o, body, lo) ==
    /\ pc = "send"
    /\ attempt < config.max_retries
    /\ LET c == Classify(o)
       IN  CASE c = "refresh" -> AuthBranch(lo)
             [] c = "backoff" -> BackoffBranch(o)
             [] c = "return_json" ->
                    ReturnBranch(o, [kind |-> "json", body |-> body])
             [] OTHER -> ReturnBranch(o, NoResponse)
    /\ UNCHANGED <<envVars, storeVars, now, runs, entry, resume, loopVars, file, written_by,
                   cronVars, hist>>

\* A loop that starts over when its attempts are used up.
SendExhaustedRestarts ==
    /\ pc = "send"
    /\ attempt >= config.max_retries
    /\ attempt' = 0
    /\ UNCHANGED <<envVars, storeVars, now, runs, pc, entry, resume, crawlerVars,
                   response, loopVars, file, written_by, cronVars, trace, hist>>

\* The loop ran out of attempts: fall through to "return None".
SendExhausted ==
    /\ pc = "send"
    /\ attempt >= config.max_retries
    /\ response' = NoResponse
    /\ pc' = "sent"
    /\ UNCHANGED <<envVars, storeVars, now, runs, entry, resume, crawlerVars, attempt,
                   loopVars, file, written_by, cronVars, trace, hist>>

\* ---------------------------------------------------- fetch_broker_data
\* row.to_dict() of the n rows parsed for one broker.
RowDicts(code, n) == [j \in 1..n |-> [broker_code |-> code, row |-> j]]

\* hist after fetch_broker_data gave r for brokers[idx] (crawl runs only).
Fetched(r) ==
    IF entry = "fetch" THEN hist
    ELSE IF r.kind = "rows" /\ r.n > 0
    THEN [hist EXCEPT !.ok = Append(@, idx),
                      !.new_data = @ \o RowDicts(brokers[idx + 1], r.n)]
    ELSE [hist EXCEPT !.failed = Append(@, idx)]

\* A fetch that does not look at _logged_in.
FetchBrokerDataAlwaysSends ==
    /\ pc = "fetch"
    /\ attempt' = 0
    /\ response' = NoResponse
    /\ trace' = EmptyTrace
    /\ pc' = "send"
    /\ UNCHANGED <<rows, hist>>
    /\ UNCHANGED <<envVars, storeVars, now, runs, entry, resume, crawlerVars,
                   checkpoint, start_time, idx, all_data, successful_brokers,
                   failed_brokers, result, file, written_by, cronVars>>

FetchBrokerData ==
    /\ pc = "fetch"
    /\ IF ~logged_in
         THEN /\ rows' = NoRows
              /\ pc' = "fetched"
              /\ hist' = IF entry = "fetch" THEN hist
                          ELSE [Fetched(NoRows) EXCEPT
                                   !.unsent = Append(@, idx)]
              /\ UNCHANGED <<attempt, response, trace>>
         ELSE /\ attempt' = 0
              /\ response' = NoResponse
              /\ trace' = EmptyTrace
              /\ pc' = "send"
              /\ UNCHANGED <<rows, hist>>
    /\ UNCHANGED <<envVars, storeVars, now, runs, entry, resume, crawlerVars,
                   checkpoint, start_time, idx, all_data, successful_brokers,
                   failed_brokers, result, file, written_by, cronVars>>

\* Rows parsed from the response; a body whose "response" is not a dict
\* makes resp_data.get raise.
ParsedRows(r) ==
    IF r.kind = "None" THEN NoRows
    ELSE IF r.body.kind = "no_response_key" THEN NoRows
    ELSE IF r.body.kind = "null_response" THEN [kind |-> "raised"]
    ELSE [kind |-> "rows", n |-> r.body.n]

FetchBrokerDataReturn ==
    /\ pc = "sent"
    /\ rows' = ParsedRows(response)
    /\ pc' = "fetched"
    /\ attempt' = 0
    /\ response' = NoResponse
    /\ trace' = EmptyTrace
    /\ hist' = Fetched(ParsedRows(response))
    /\ UNCHANGED <<envVars, storeVars, now, runs, entry, resume, crawlerVars,
                   checkpoint, start_time, idx, all_data, successful_brokers,
                   failed_brokers, result, file, written_by, cronVars>>

\* A caller of fetch_broker_data fetching once more (test_crawler_access).
FetchAgain ==
    /\ pc = "fetched"
    /\ entry = "fetch"
    /\ pc' = "fetch"
    /\ UNCHANGED <<envVars, storeVars, now, runs, entry, resume, crawlerVars, sendVars,
                   loopVars, file, written_by, cronVars, trace, hist>>

\* ------------------------------------------------------ checkpoint file
\* A load that takes a checkpoint of any age.
load_checkpoint_any_age(f, t) ==
    IF f.kind = "checkpoint" THEN f
    ELSE IF f.kind \in {"unreadable", "not_object", "started_at_not_str"}
    THEN Raised
    ELSE NoCheckpoint

\* _load_checkpoint: the file's checkpoint if it parses and is at most
\* two hours old, None otherwise.
load_checkpoint(f, t) ==
    IF f.kind = "absent" THEN NoCheckpoint
    \* open() raises OSError, which the except clause does not name
    ELSE IF f.kind = "unreadable" THEN Raised
    \* json.load raises JSONDecodeError
    ELSE IF f.kind \in {"truncated", "not_json"} THEN NoCheckpoint
    \* checkpoint.get raises AttributeError on a list, number, string, null
    ELSE IF f.kind = "not_object" THEN Raised
    \* datetime.fromisoformat("") raises ValueError
    ELSE IF f.kind = "no_started_at" THEN NoCheckpoint
    \* datetime.fromisoformat(5) raises TypeError
    ELSE IF f.kind = "started_at_not_str" THEN Raised
    ELSE IF t - f.started_at > CheckpointMaxAgeMinutes THEN NoCheckpoint
    ELSE f

\* The checkpoint dict _save_checkpoint dumps.
CheckpointOf(started, i, code, completed, failed, data) ==
    [kind |-> "checkpoint", started_at |-> started, last_broker_index |-> i,
     last_broker_code |-> code, completed_brokers |-> completed,
     failed_brokers |-> failed, partial_data |-> data]

\* ---------------------------------------------------- crawl_all_brokers
\* A resume that starts at the checkpointed entity itself.
StartIndexRefetches(ck) == ck.last_broker_index

\* The index the loop starts at after a checkpoint was loaded.
StartIndex(ck) == ck.last_broker_index + 1

\* Entry of crawl_all_brokers up to the loop.
CrawlStart ==
    /\ pc = "crawl"
    /\ IF ~logged_in
         THEN /\ result' = [kind |-> "error"]
              /\ pc' = "crawled"
              /\ UNCHANGED <<checkpoint, start_time, idx, all_data,
                             successful_brokers, failed_brokers>>
         ELSE LET ck == IF resume THEN load_checkpoint(file, now)
                        ELSE NoCheckpoint
              IN  IF ck.kind = "raised"
                    THEN /\ result' = Raised
                         /\ pc' = "raised"
                         /\ UNCHANGED <<checkpoint, start_time, idx,
                                        all_data, successful_brokers,
                                        failed_brokers>>
                    ELSE
                  /\ checkpoint' = ck
                  /\ idx' = IF ck.kind = "none" THEN 0 ELSE StartIndex(ck)
                  /\ successful_brokers' = IF ck.kind = "none" THEN <<>>
                                           ELSE ck.completed_brokers
                  /\ failed_brokers' = IF ck.kind = "none" THEN <<>>
                                       ELSE ck.failed_brokers
                  /\ all_data' = IF ck.kind = "none" THEN <<>>
                                 ELSE ck.partial_data
                  /\ start_time' = now
                  /\ pc' = "loop"
                  /\ result' = result
    /\ hist' = [hist EXCEPT !.found = load_checkpoint(file, now),
                         !.found_by = written_by]
    /\ UNCHANGED <<envVars, storeVars, now, runs, entry, resume, crawlerVars, sendVars,
                   rows, file, written_by, cronVars, trace>>

\* An exception that left crawl_all_brokers: main has no handler and the
\* process dies with a traceback; run_daily_crawl catches it, reports
\* error and marks its crawl log entry failed.
Uncaught ==
    /\ pc = "raised"
    /\ IF entry = "cron"
         THEN /\ crawl_log' = [crawl_log EXCEPT
                                  ![cron.crawl_log_id].status = "failed"]
              /\ cron' = [cron EXCEPT !.status = "error"]
         ELSE /\ UNCHANGED crawl_log
              /\ cron' = [cron EXCEPT !.status = "exit1"]
    /\ pc' = "exit"
    /\ UNCHANGED <<envVars, storeVars, now, runs, entry, resume, crawlerVars, sendVars,
                   loopVars, file, written_by, db, trace, hist>>

\* Head of one loop iteration: _ensure_session_valid, then the fetch.
ProcessBroker(lo) ==
    /\ pc = "loop"
    /\ idx < Len(brokers)
    /\ LET r == ensure_session_valid(
                    Session(logged_in, session_created_at), lo, now)
       IN  /\ logged_in' = r.s.logged_in
           /\ session_created_at' = r.s.created_at
    /\ pc' = "fetch"
    /\ hist' = [hist EXCEPT !.fetched = Append(@, idx)]
    /\ UNCHANGED <<envVars, storeVars, now, runs, entry, resume, sendVars, loopVars,
                   file, written_by, cronVars, trace>>

\* A loop that lets the failure of one entity end the run.
RecordOutcomeAbortsOnFailure ==
    /\ pc = "fetched"
    /\ entry # "fetch"
    /\ LET code == brokers[idx + 1]
       IN  IF rows.kind = "rows" /\ rows.n > 0
             THEN /\ all_data' = all_data \o RowDicts(code, rows.n)
                  /\ successful_brokers' = Append(successful_brokers, code)
                  /\ pc' = "save"
                  /\ UNCHANGED <<failed_brokers, result>>
             ELSE /\ result' = [kind |-> "error"]
                  /\ pc' = "crawled"
                  /\ UNCHANGED <<all_data, successful_brokers,
                                 failed_brokers>>
    /\ rows' = NoRows
    /\ UNCHANGED <<envVars, storeVars, now, runs, entry, resume, crawlerVars, sendVars,
                   checkpoint, start_time, idx, file, written_by, cronVars, trace, hist>>

\* A loop that records an entity without rows in neither list.
RecordOutcomeDropsFailure ==
    /\ pc = "fetched"
    /\ entry # "fetch"
    /\ LET code == brokers[idx + 1]
       IN  IF rows.kind = "rows" /\ rows.n > 0
             THEN /\ all_data' = all_data \o RowDicts(code, rows.n)
                  /\ successful_brokers' = Append(successful_brokers, code)
             ELSE UNCHANGED <<all_data, successful_brokers>>
    /\ rows' = NoRows
    /\ pc' = "save"
    /\ UNCHANGED <<envVars, storeVars, now, runs, entry, resume, crawlerVars, sendVars,
                   checkpoint, start_time, idx, failed_brokers, result, file, written_by,
                   cronVars, trace, hist>>

\* A loop that takes every fetch that returned for a success.
RecordOutcomeCountsEmpty ==
    /\ pc = "fetched"
    /\ entry # "fetch"
    /\ LET code == brokers[idx + 1]
       IN  IF rows.kind = "rows"
             THEN /\ all_data' = all_data \o RowDicts(code, rows.n)
                  /\ successful_brokers' = Append(successful_brokers, code)
                  /\ failed_brokers' = failed_brokers
             ELSE /\ failed_brokers' = Append(failed_brokers, code)
                  /\ UNCHANGED <<all_data, successful_brokers>>
    /\ rows' = NoRows
    /\ pc' = "save"
    /\ UNCHANGED <<envVars, storeVars, now, runs, entry, resume, crawlerVars, sendVars,
                   checkpoint, start_time, idx, result, file, written_by, cronVars,
                   trace, hist>>

\* if rows: extend and record as successful; else (or on an exception)
\* record as failed.
RecordOutcome ==
    /\ pc = "fetched"
    /\ entry # "fetch"
    /\ LET code == brokers[idx + 1]
       IN  IF rows.kind = "rows" /\ rows.n > 0
             THEN /\ all_data' = all_data \o RowDicts(code, rows.n)
                  /\ successful_brokers' = Append(successful_brokers, code)
                  /\ failed_brokers' = failed_brokers
             ELSE /\ failed_brokers' = Append(failed_brokers, code)
                  /\ UNCHANGED <<all_data, successful_brokers>>
    /\ rows' = NoRows
    /\ pc' = "save"
    /\ UNCHANGED <<envVars, storeVars, now, runs, entry, resume, crawlerVars, sendVars,
                   checkpoint, start_time, idx, result, file, written_by, cronVars,
                   trace, hist>>

\* A save that removes the file before it writes the new one.
SaveCheckpointOpenUnlinks ==
    /\ pc = "save"
    /\ file' = AbsentFile
    /\ UNCHANGED written_by
    /\ pc' = "save_write"
    /\ UNCHANGED <<envVars, storeVars, now, runs, entry, resume, crawlerVars, sendVars,
                   loopVars, cronVars, trace, hist>>

\* _save_checkpoint, first half: open(path, "w") truncates the file.
SaveCheckpointOpen ==
    /\ pc = "save"
    /\ file' = TruncatedFile
    /\ UNCHANGED written_by
    /\ pc' = "save_write"
    /\ UNCHANGED <<envVars, storeVars, now, runs, entry, resume, crawlerVars, sendVars,
                   loopVars, cronVars, trace, hist>>

\* A save that stores the 1-based position of the entity.
SaveCheckpointWriteOneBased ==
    /\ pc = "save_write"
    /\ written_by' = entry
    /\ file' = CheckpointOf(
                  IF checkpoint.kind = "none" THEN start_time
                  ELSE checkpoint.started_at,
                  idx + 1, brokers[idx + 1], successful_brokers,
                  failed_brokers, all_data)
    /\ pc' = "sleep"
    /\ UNCHANGED <<envVars, storeVars, now, runs, entry, resume, crawlerVars, sendVars,
                   loopVars, cronVars, trace, hist>>

\* A save that stamps every checkpoint with the start of the present run.
SaveCheckpointWriteResumeTime ==
    /\ pc = "save_write"
    /\ written_by' = entry
    /\ file' = CheckpointOf(start_time, idx, brokers[idx + 1],
                            successful_brokers, failed_brokers, all_data)
    /\ pc' = "sleep"
    /\ UNCHANGED <<envVars, storeVars, now, runs, entry, resume, crawlerVars,
                   sendVars, loopVars, cronVars, trace, hist>>

\* _save_checkpoint, second half: json.dump has written the whole dict.
SaveCheckpointWrite ==
    /\ pc = "save_write"
    /\ written_by' = entry
    /\ file' = CheckpointOf(
                  IF checkpoint.kind = "none" THEN start_time
                  ELSE checkpoint.started_at,
                  idx, brokers[idx + 1], successful_brokers, failed_brokers,
                  all_data)
    /\ pc' = "sleep"
    /\ UNCHANGED <<envVars, storeVars, now, runs, entry, resume, crawlerVars, sendVars,
                   loopVars, cronVars, trace, hist>>

\* Time that can pass while the loop goes from one entity to the next.
Elapsed == {0, session_max_age_minutes}

\* A loop that sleeps after every entity, the last one too.
RateLimitSleepAfterLast(d) ==
    /\ pc = "sleep"
    /\ now + d <= MaxClock
    /\ now' = now + d
    /\ hist' = [hist EXCEPT !.sleeps = Append(@, idx)]
    /\ idx' = idx + 1
    /\ pc' = "loop"
    /\ UNCHANGED <<envVars, storeVars, runs, entry, resume, crawlerVars,
                   sendVars, checkpoint, start_time, all_data,
                   successful_brokers, failed_brokers, rows, result, file,
                   written_by, cronVars, trace>>

\* Rate limiting between brokers (none after the last), next iteration.
RateLimitSleep(d) ==
    /\ pc = "sleep"
    /\ IF idx + 1 < Len(brokers)
         THEN /\ now + d <= MaxClock
              /\ now' = now + d
              /\ hist' = [hist EXCEPT !.sleeps = Append(@, idx)]
         ELSE /\ d = 0
              /\ now' = now
              /\ hist' = hist
    /\ idx' = idx + 1
    /\ pc' = "loop"
    /\ UNCHANGED <<envVars, storeVars, runs, entry, resume, crawlerVars,
                   sendVars, checkpoint, start_time, all_data,
                   successful_brokers, failed_brokers, rows, result, file,
                   written_by, cronVars, trace>>

\* A summary whose resumed flag repeats the resume argument.
CrawlFinishResumedAsRequested ==
    /\ pc = "loop"
    /\ idx >= Len(brokers)
    /\ result' = [kind |-> "result",
                  total_brokers |-> Len(brokers),
                  successful_brokers |-> Len(successful_brokers),
                  failed_brokers |-> Len(failed_brokers),
                  total_rows |-> Len(all_data),
                  resumed |-> resume,
                  duration |-> IF checkpoint.kind = "none"
                               THEN now - start_time
                               ELSE now - checkpoint.started_at,
                  successful_broker_codes |-> successful_brokers,
                  failed_broker_codes |-> failed_brokers,
                  data |-> all_data]
    /\ file' = AbsentFile
    /\ written_by' = "none"
    /\ hist' = [hist EXCEPT !.cleared =
                    IF file.kind # "absent" THEN "finish" ELSE @]
    /\ pc' = "crawled"
    /\ UNCHANGED <<envVars, storeVars, now, runs, entry, resume, crawlerVars, sendVars,
                   checkpoint, start_time, idx, all_data, successful_brokers,
                   failed_brokers, rows, cronVars, trace>>

\* After the loop: the result dict, then _clear_checkpoint.
CrawlFinish ==
    /\ pc = "loop"
    /\ idx >= Len(brokers)
    /\ result' = [kind |-> "result",
                  total_brokers |-> Len(brokers),
                  successful_brokers |-> Len(successful_brokers),
                  failed_brokers |-> Len(failed_brokers),
                  total_rows |-> Len(all_data),
                  resumed |-> (resume /\ checkpoint.kind # "none"),
                  duration |-> IF checkpoint.kind = "none"
                               THEN now - start_time
                               ELSE now - checkpoint.started_at,
                  successful_broker_codes |-> successful_brokers,
                  failed_broker_codes |-> failed_brokers,
                  data |-> all_data]
    /\ file' = AbsentFile
    /\ written_by' = "none"
    /\ hist' = [hist EXCEPT !.cleared =
                    IF file.kind # "absent" THEN "finish" ELSE @]
    /\ pc' = "crawled"
    /\ UNCHANGED <<envVars, storeVars, now, runs, entry, resume, crawlerVars, sendVars,
                   checkpoint, start_time, idx, all_data, successful_brokers,
                   failed_brokers, rows, cronVars, trace>>

\* ------------------------------------------------- processes: start, end
\* Time between the end of one process and the start of the next.
StartDelays == {CheckpointMaxAgeMinutes, CheckpointMaxAgeMinutes + 1}

\* A new process starts with a new BrokerCrawler and empty locals.
FreshProcess ==
    /\ logged_in' = FALSE
    /\ session_created_at' = -1
    /\ checkpoint' = NoCheckpoint
    /\ start_time' = 0
    /\ idx' = 0
    /\ all_data' = <<>>
    /\ successful_brokers' = <<>>
    /\ failed_brokers' = <<>>
    /\ rows' = NoRows
    /\ attempt' = 0
    /\ response' = NoResponse
    /\ result' = NoResult
    /\ trace' = EmptyTrace

\* A check that never finds a row.
has_successful_crawl_never(log, d) == FALSE

\* Database.has_successful_crawl_today
has_successful_crawl_today(log, d) ==
    \E k \in DOMAIN log : log[k].crawl_date = d /\ log[k].status = "success"

\* run_daily_crawl up to start_crawl_log (steps 1 to 4).
StartCron(d, trading_day, db_ok) ==
    /\ pc = "idle"
    /\ IF runs = 0 THEN d = 0 ELSE d \in StartDelays \cup {DayMinutes}
    /\ d \in StartDelays => now + d <= MaxClock
    /\ d = DayMinutes => Today(now + d) < MaxDays
    /\ runs' = 1
    /\ now' = now + d
    /\ entry' = "cron"
    /\ resume' = FALSE
    /\ FreshProcess
    /\ hist' = [EmptyHist EXCEPT
                    !.trading_day = trading_day,
                    !.connected = IF ~trading_day THEN "no"
                                  ELSE IF db_ok THEN "ok" ELSE "failed"]
    /\ IF ~trading_day
         THEN /\ cron' = [cron EXCEPT !.status = "skipped"]
              /\ pc' = "exit"
              /\ crawl_log' = crawl_log
         ELSE IF ~db_ok
         THEN /\ cron' = [cron EXCEPT !.status = "error"]
              /\ pc' = "exit"
              /\ crawl_log' = crawl_log
         ELSE IF has_successful_crawl_today(crawl_log, Today(now + d))
         THEN /\ cron' = [cron EXCEPT !.status = "skipped"]
              /\ pc' = "exit"
              /\ crawl_log' = crawl_log
         ELSE /\ crawl_log' = Append(crawl_log,
                                     LogEntry(Today(now + d), "running"))
              /\ cron' = [cron EXCEPT !.status = "unknown",
                                     !.crawl_log_id = Len(crawl_log) + 1]
              /\ pc' = "cron_login"
    /\ UNCHANGED <<envVars, storeVars, file, written_by, db>>

\* broker_crawler.main up to login: --fresh clears the checkpoint.
StartCli(d, res, fresh) ==
    /\ pc = "idle"
    /\ IF runs = 0 THEN d = 0 ELSE d \in StartDelays
    /\ now + d <= MaxClock
    /\ runs' = 1
    /\ now' = now + d
    /\ entry' = "cli"
    /\ resume' = res
    /\ FreshProcess
    /\ hist' = [EmptyHist EXCEPT !.cleared =
                    IF fresh /\ file.kind # "absent" THEN "fresh" ELSE "none"]
    /\ file' = IF fresh THEN AbsentFile ELSE file
    /\ written_by' = IF fresh THEN "none" ELSE written_by
    /\ pc' = "cli_login"
    /\ UNCHANGED <<envVars, storeVars, cronVars>>

\* An entry point that goes on to the crawl whatever login() returned.
LoginIgnoresFailure(lo) ==
    /\ pc \in {"cron_login", "cli_login"}
    /\ LET r == login(Session(logged_in, session_created_at), lo, now)
       IN  /\ logged_in' = r.s.logged_in
           /\ session_created_at' = r.s.created_at
    /\ pc' = "crawl"
    /\ UNCHANGED <<envVars, storeVars, now, runs, entry, resume, sendVars, loopVars,
                   file, written_by, cronVars, trace, hist>>

\* crawler.login() of either entry point; failure ends the process.
Login(lo) ==
    /\ pc \in {"cron_login", "cli_login"}
    /\ LET r == login(Session(logged_in, session_created_at), lo, now)
       IN  /\ logged_in' = r.s.logged_in
           /\ session_created_at' = r.s.created_at
           /\ hist' = [hist EXCEPT !.login_sent = r.sent]
           /\ IF r.ok
                THEN /\ pc' = "crawl"
                     /\ UNCHANGED <<crawl_log, cron>>
                ELSE /\ pc' = "exit"
                     /\ IF entry = "cron"
                          THEN /\ crawl_log' = [crawl_log EXCEPT
                                     ![cron.crawl_log_id].status = "failed"]
                               /\ cron' = [cron EXCEPT !.status = "error"]
                          ELSE /\ UNCHANGED crawl_log
                               /\ cron' = [cron EXCEPT !.status = "exit1"]
    /\ UNCHANGED <<envVars, storeVars, now, runs, entry, resume, sendVars, loopVars,
                   file, written_by, db, trace>>

\* run_daily_crawl step 6: insert the crawled rows (an upsert by key).
CronInsert ==
    /\ pc = "crawled"
    /\ entry = "cron"
    /\ IF result.kind = "result" /\ Len(result.data) > 0
         THEN /\ db' = [db EXCEPT !.trades =
                           @ \cup {result.data[k] : k \in DOMAIN result.data}]
              /\ cron' = [cron EXCEPT
                    !.rows_crawled = Len(result.data),
                    !.successful_brokers =
                        Len(result.successful_broker_codes),
                    !.failed_brokers = Len(result.failed_broker_codes)]
         ELSE UNCHANGED <<db, cron>>
    /\ pc' = "cron_rate"
    /\ UNCHANGED <<envVars, storeVars, now, runs, entry, resume, crawlerVars, sendVars,
                   loopVars, file, written_by, crawl_log, trace, hist>>

\* get_period_trade_dates(db, "today"): the latest crawl_date among the
\* rows with status success, as a set (empty: no such row).
TodayPeriodDates(log) ==
    LET ds == {log[k].crawl_date : k \in {j \in DOMAIN log :
                                              log[j].status = "success"}}
    IN  IF ds = {} THEN {}
        ELSE {CHOOSE d \in ds : \A e \in ds : e <= d}

\* AggregationComputer.compute_all: the aggregates of period "today" are
\* rewritten with period_end = max(trade_dates) when broker_trades holds
\* a trade date and the period has one, and left as they are otherwise.
compute_all(d, log) ==
    LET ds == TodayPeriodDates(log)
    IN  [d EXCEPT !.aggregates = TRUE,
                  !.today_end = IF d.trades = {} \/ ds = {} THEN @
                                ELSE CHOOSE e \in ds : TRUE]

\* A threshold that only a run without any failure meets.
RateOkAllOrNothing(successful, total) == successful >= total

\* success_rate >= 0.8
RateOk(successful, total) ==
    100 * successful >= SuccessRatePercent * total

\* run_daily_crawl step 7: aggregates when the rate is met, else "failed".
\* A step 7 that reports a low success rate without touching the log.
CronRateLeavesRunning ==
    /\ pc = "cron_rate"
    /\ IF RateOk(cron.successful_brokers, Len(brokers))
         THEN /\ db' = compute_all(db, crawl_log)
              /\ pc' = "cron_mark"
              /\ UNCHANGED <<crawl_log, cron>>
         ELSE /\ crawl_log' = crawl_log
              /\ cron' = [cron EXCEPT !.status = "partial_failure"]
              /\ pc' = "exit"
              /\ db' = db
    /\ UNCHANGED <<envVars, storeVars, now, runs, entry, resume, crawlerVars, sendVars,
                   loopVars, file, written_by, trace, hist>>

CronRate ==
    /\ pc = "cron_rate"
    /\ IF RateOk(cron.successful_brokers, Len(brokers))
         THEN /\ db' = compute_all(db, crawl_log)
              /\ pc' = "cron_mark"
              /\ UNCHANGED <<crawl_log, cron>>
         ELSE /\ crawl_log' = [crawl_log EXCEPT
                                  ![cron.crawl_log_id].status = "failed"]
              /\ cron' = [cron EXCEPT !.status = "partial_failure"]
              /\ pc' = "exit"
              /\ db' = db
    /\ UNCHANGED <<envVars, storeVars, now, runs, entry, resume, crawlerVars, sendVars,
                   loopVars, file, written_by, trace, hist>>

\* update_crawl_log(status="success") after compute_all.
CronMarkSuccess ==
    /\ pc = "cron_mark"
    /\ crawl_log' = [crawl_log EXCEPT
                        ![cron.crawl_log_id].status = "success"]
    /\ cron' = [cron EXCEPT !.status = "success"]
    /\ pc' = "exit"
    /\ UNCHANGED <<envVars, storeVars, now, runs, entry, resume, crawlerVars, sendVars,
                   loopVars, file, written_by, db, trace, hist>>

\* The positions inside the loop of crawl_all_brokers.
LoopPcs == {"loop", "fetch", "send", "sent", "fetched", "save", "save_write",
            "sleep"}

\* An exception leaves the try block of run_daily_crawl after the log
\* entry was started (from login, from the checkpoint write of the loop,
\* from the insert or from compute_all): the handler marks the entry
\* failed and returns the result with status error.
CronException ==
    /\ entry = "cron"
    /\ cron.crawl_log_id > 0
    /\ pc \in {"cron_login", "crawl", "crawled", "cron_rate"} \cup LoopPcs
    /\ crawl_log' = [crawl_log EXCEPT
                        ![cron.crawl_log_id].status = "failed"]
    /\ cron' = [cron EXCEPT !.status = "error"]
    /\ pc' = "exit"
    /\ UNCHANGED <<envVars, storeVars, now, runs, entry, resume, crawlerVars, sendVars,
                   loopVars, file, written_by, db, trace, hist>>

\* broker_crawler.main after the crawl: save_to_json.
CliSave ==
    /\ pc = "crawled"
    /\ entry = "cli"
    /\ cron' = [cron EXCEPT !.status = "exit0"]
    /\ pc' = "exit"
    /\ UNCHANGED <<envVars, storeVars, now, runs, entry, resume, crawlerVars, sendVars,
                   loopVars, file, written_by, crawl_log, db, trace, hist>>

\* An exit code that counts a skipped run as a failure.
ExitCodeSkippedFails(e, st) ==
    IF e = "cron" THEN (IF st = "success" THEN 0 ELSE 1)
    ELSE IF st = "exit0" THEN 0 ELSE 1

\* The exit code of the process: cron_runner.main maps the status of
\* run_daily_crawl; broker_crawler.main ends with 0 after save_to_json and
\* with 1 after exit(1) or an uncaught exception.
ExitCode(e, st) ==
    IF e = "cron"
      THEN IF st = "success" THEN 0
           ELSE IF st = "skipped" THEN 0
           ELSE 1
      ELSE IF st = "exit0" THEN 0 ELSE 1

\* The end of main: sys.exit with the exit code.
MainExit ==
    /\ pc = "exit"
    /\ cron' = [cron EXCEPT !.exit_code = ExitCode(entry, cron.status)]
    /\ pc' = "exited"
    /\ UNCHANGED <<envVars, storeVars, now, runs, entry, resume, crawlerVars, sendVars,
                   loopVars, file, written_by, crawl_log, db, trace, hist>>

\* The process returns; its memory is gone, files and tables stay.
Exit ==
    /\ pc = "exited"
    /\ pc' = "idle"
    /\ FreshProcess
    /\ cron' = NoCron
    /\ entry' = "none"
    /\ resume' = FALSE
    /\ hist' = EmptyHist
    /\ UNCHANGED <<envVars, storeVars, now, runs, file, written_by, crawl_log, db>>

\* The process is killed from outside, wherever it is.
Kill ==
    /\ pc \notin {"idle", "exit", "exited"}
    /\ pc' = "idle"
    /\ FreshProcess
    /\ cron' = NoCron
    /\ entry' = "none"
    /\ resume' = FALSE
    /\ hist' = EmptyHist
    /\ UNCHANGED <<envVars, storeVars, now, runs, file, written_by, crawl_log, db>>

\* ------------------------------------------------------ specifications
ProcessInit ==
    /\ logged_in = FALSE
    /\ session_created_at = -1
    /\ checkpoint = NoCheckpoint
    /\ start_time = 0
    /\ idx = 0
    /\ all_data = <<>>
    /\ successful_brokers = <<>>
    /\ failed_brokers = <<>>
    /\ rows = NoRows
    /\ attempt = 0
    /\ response = NoResponse
    /\ result = NoResult
    /\ cron = NoCron
    /\ trace = EmptyTrace

SendConfigs ==
    [max_retries : 0..MaxRetriesBound,
     retry_base_delay : 1..MaxBaseDelay,
     retry_max_delay : {MaxBaseDelay + 1, retry_max_delay_default},
     has_credentials : BOOLEAN]

\* A logged-in crawler whose fetch_broker_data is called again and again.
InitSend ==
    /\ config \in SendConfigs
    /\ brokers = SubSeq(AllCodes, 1, 1)
    /\ now = 0
    /\ runs = 1
    /\ pc = "fetch"
    /\ entry = "fetch"
    /\ resume = FALSE
    /\ logged_in = TRUE
    /\ session_created_at = 0
    /\ checkpoint = NoCheckpoint
    /\ start_time = 0
    /\ idx = 0
    /\ all_data = <<>>
    /\ successful_brokers = <<>>
    /\ failed_brokers = <<>>
    /\ rows = NoRows
    /\ attempt = 0
    /\ response = NoResponse
    /\ result = NoResult
    /\ cron = NoCron
    /\ trace = EmptyTrace
    /\ file = AbsentFile
    /\ written_by = "none"
    /\ crawl_log = <<>>
    /\ db = EmptyDb
    /\ hist = EmptyHist
    /\ StoreIdle

NextSend ==
    \/ FetchBrokerData
    \/ \E body \in Bodies : SendAttempt("ok", body, "ok")
    \/ \E lo \in LoginOutcomes : SendAttempt("auth", NoBody, lo)
    \/ \E o \in Transient \cup NonRetryable : SendAttempt(o, NoBody, "ok")
    \/ SendExhausted
    \/ FetchBrokerDataReturn
    \/ FetchAgain

SpecSend == InitSend /\ [][NextSend]_vars

DefaultConfigs ==
    [max_retries : {max_retries_default},
     retry_base_delay : {retry_base_delay_default},
     retry_max_delay : {retry_max_delay_default},
     has_credentials : BOOLEAN]

\* No process yet, no checkpoint file, empty tables.
Init ==
    /\ config \in DefaultConfigs
    /\ brokers \in {SubSeq(AllCodes, 1, n) : n \in 1..MaxBrokers}
    /\ now = 0
    /\ runs = 0
    /\ pc = "idle"
    /\ entry = "none"
    /\ resume = FALSE
    /\ ProcessInit
    /\ file = AbsentFile
    /\ written_by = "none"
    /\ crawl_log = <<>>
    /\ db = EmptyDb
    /\ hist = EmptyHist
    /\ StoreIdle

Next ==
    \/ \E d \in {0} \cup StartDelays, trading_day \in BOOLEAN,
          db_ok \in BOOLEAN :
           StartCron(d, trading_day, db_ok)
    \/ \E d \in {0} \cup StartDelays, res \in BOOLEAN, fresh \in BOOLEAN :
           StartCli(d, res, fresh)
    \/ \E lo \in LoginOutcomes : Login(lo)
    \/ CrawlStart
    \/ \E lo \in LoginOutcomes : ProcessBroker(lo)
    \/ FetchBrokerData
    \/ \E body \in Bodies : SendAttempt("ok", body, "ok")
    \/ \E lo \in LoginOutcomes : SendAttempt("auth", NoBody, lo)
    \/ \E o \in Transient \cup NonRetryable : SendAttempt(o, NoBody, "ok")
    \/ SendExhausted
    \/ FetchBrokerDataReturn
    \/ RecordOutcome
    \/ SaveCheckpointOpen
    \/ SaveCheckpointWrite
    \/ \E d \in Elapsed : RateLimitSleep(d)
    \/ CrawlFinish
    \/ CronInsert
    \/ CronRate
    \/ CronMarkSuccess
    \/ CliSave
    \/ MainExit
    \/ Exit
    \/ Kill

Spec == Init /\ [][Next]_vars

\* The checkpoint a run over b leaves when it is killed after entity i,
\* every entity so far having given MaxRows rows (ok) or none.
LeftCheckpoint(b, i, ok) ==
    CheckpointOf(0, i, b[i + 1],
                 IF ok THEN SubSeq(b, 1, i + 1) ELSE <<>>,
                 IF ok THEN <<>> ELSE SubSeq(b, 1, i + 1),
                 IF ok THEN [k \in 1..((i + 1) * MaxRows) |->
                                [broker_code |-> b[((k - 1) \div MaxRows) + 1],
                                 row |-> ((k - 1) % MaxRows) + 1]]
                 ELSE <<>>)

\* What main can find at the checkpoint path when it starts.
DiskContents(b) ==
    {AbsentFile} \cup CorruptFiles
        \cup {LeftCheckpoint(b, i, ok) : i \in 0..(Len(b) - 1), ok \in BOOLEAN}

\* One run of main over whatever is on disk, started round the end of the
\* freshness window of a checkpoint begun at minute 0.
InitResume ==
    /\ config \in DefaultConfigs
    /\ brokers \in {SubSeq(AllCodes, 1, n) : n \in 1..MaxBrokers}
    /\ now \in StartDelays
    /\ runs = 0
    /\ pc = "idle"
    /\ entry = "none"
    /\ resume = FALSE
    /\ ProcessInit
    /\ file \in DiskContents(brokers)
    /\ written_by = IF file.kind = "checkpoint" THEN "cli" ELSE "none"
    /\ crawl_log = <<>>
    /\ db = EmptyDb
    /\ hist = EmptyHist
    /\ StoreIdle

NextResume ==
    \/ \E res \in BOOLEAN, fresh \in BOOLEAN : StartCli(0, res, fresh)
    \/ \E lo \in LoginOutcomes : Login(lo)
    \/ CrawlStart
    \/ Uncaught
    \/ \E lo \in LoginOutcomes : ProcessBroker(lo)
    \/ FetchBrokerData
    \/ \E body \in Bodies : SendAttempt("ok", body, "ok")
    \/ \E lo \in LoginOutcomes : SendAttempt("auth", NoBody, lo)
    \/ \E o \in Transient \cup NonRetryable : SendAttempt(o, NoBody, "ok")
    \/ SendExhausted
    \/ FetchBrokerDataReturn
    \/ RecordOutcome
    \/ SaveCheckpointOpen
    \/ SaveCheckpointWrite
    \/ \E d \in Elapsed : RateLimitSleep(d)
    \/ CrawlFinish
    \/ CliSave
    \/ MainExit
    \/ Exit

SpecResume == InitResume /\ [][NextResume]_vars

\* The result crawl_all_brokers returns to run_daily_crawl when the
\* entities of ok gave one row each and the others none.
CrawlResult(b, ok) ==
    LET good == SelectSeq(b, LAMBDA c : c \in ok)
        bad == SelectSeq(b, LAMBDA c : c \notin ok)
        data == [k \in 1..Len(good) |-> [broker_code |-> good[k], row |-> 1]]
    IN  [kind |-> "result",
         total_brokers |-> Len(b),
         successful_brokers |-> Len(good),
         failed_brokers |-> Len(bad),
         total_rows |-> Len(data),
         resumed |-> FALSE,
         duration |-> 0,
         successful_broker_codes |-> good,
         failed_broker_codes |-> bad,
         data |-> data]

\* crawl_all_brokers(BROKER_CODES) as one step of run_daily_crawl: the
\* entities of ok give a row, the others none; the checkpoint is cleared.
CrawlAllBrokers(ok) ==
    /\ pc = "crawl"
    /\ entry = "cron"
    /\ ok \subseteq {brokers[k] : k \in DOMAIN brokers}
    /\ result' = CrawlResult(brokers, ok)
    /\ all_data' = result'.data
    /\ successful_brokers' = result'.successful_broker_codes
    /\ failed_brokers' = result'.failed_broker_codes
    /\ idx' = Len(brokers)
    /\ file' = AbsentFile
    /\ written_by' = "none"
    /\ pc' = "crawled"
    /\ UNCHANGED <<envVars, storeVars, now, runs, entry, resume, crawlerVars, sendVars,
                   checkpoint, start_time, rows, cronVars, trace, hist>>

\* The cron job day after day: every run of run_daily_crawl from its
\* start to the exit code, the crawl taken as one step.
InitDays ==
    /\ config \in DefaultConfigs
    /\ brokers \in {SubSeq(AllCodes, 1, n) : n \in 1..MaxBrokers}
    /\ now = 0
    /\ runs = 0
    /\ pc = "idle"
    /\ entry = "none"
    /\ resume = FALSE
    /\ ProcessInit
    /\ file = AbsentFile
    /\ written_by = "none"
    /\ crawl_log = <<>>
    /\ db = EmptyDb
    /\ hist = EmptyHist
    /\ StoreIdle

NextDays ==
    \/ \E d \in {0, DayMinutes} \cup StartDelays, trading_day \in BOOLEAN,
          db_ok \in BOOLEAN :
           StartCron(d, trading_day, db_ok)
    \/ \E lo \in LoginOutcomes : Login(lo)
    \/ \E ok \in SUBSET {brokers[k] : k \in DOMAIN brokers} :
           CrawlAllBrokers(ok)
    \/ CronInsert
    \/ CronRate
    \/ CronMarkSuccess
    \/ MainExit
    \/ Exit

SpecDays == InitDays /\ [][NextDays]_vars

\* run_daily_crawl at the return of crawl_all_brokers, for every split of
\* the list into successful and failed entities.
InitRate ==
    /\ config \in DefaultConfigs
    /\ config.has_credentials
    /\ brokers \in {SubSeq(AllCodes, 1, n) : n \in 1..MaxRateBrokers}
    /\ now = 0
    /\ runs = 1
    /\ pc = "crawled"
    /\ entry = "cron"
    /\ resume = FALSE
    /\ logged_in = TRUE
    /\ session_created_at = 0
    /\ checkpoint = NoCheckpoint
    /\ start_time = 0
    /\ idx = Len(brokers)
    /\ \E ok \in SUBSET {brokers[k] : k \in DOMAIN brokers} :
           /\ result = CrawlResult(brokers, ok)
           /\ all_data = result.data
           /\ successful_brokers = result.successful_broker_codes
           /\ failed_brokers = result.failed_broker_codes
    /\ rows = NoRows
    /\ attempt = 0
    /\ response = NoResponse
    /\ cron = [NoCron EXCEPT !.status = "unknown", !.crawl_log_id = 1]
    /\ trace = EmptyTrace
    /\ file = AbsentFile
    /\ written_by = "none"
    /\ crawl_log = <<LogEntry(Today(now), "running")>>
    /\ db = EmptyDb
    /\ hist = EmptyHist
    /\ StoreIdle

NextRate ==
    \/ CronInsert
    \/ CronRate
    \/ CronMarkSuccess
    \/ MainExit
    \/ Exit

SpecRate == InitRate /\ [][NextRate]_vars

\* --------------------------------------------------- session expiry
\* A caller asks _is_session_expired; the call assigns nothing.
IsSessionExpired ==
    /\ pc = "expiry"
    /\ hist' = [hist EXCEPT !.expired =
                    IF is_session_expired(
                           Session(logged_in, session_created_at), now)
                      THEN "yes" ELSE "no"]
    /\ pc' = "expiry_done"
    /\ UNCHANGED <<envVars, storeVars, now, runs, entry, resume, crawlerVars,
                   sendVars, loopVars, file, written_by, cronVars, trace>>

\* A crawler whose session was never created or was created at any minute
\* up to now.
InitSession ==
    /\ config \in DefaultConfigs
    /\ config.has_credentials
    /\ brokers = SubSeq(AllCodes, 1, 1)
    /\ now \in 0..MaxClock
    /\ runs = 1
    /\ pc = "expiry"
    /\ entry = "session"
    /\ resume = FALSE
    /\ logged_in \in BOOLEAN
    /\ session_created_at \in {-1} \cup 0..now
    /\ checkpoint = NoCheckpoint
    /\ start_time = 0
    /\ idx = 0
    /\ all_data = <<>>
    /\ successful_brokers = <<>>
    /\ failed_brokers = <<>>
    /\ rows = NoRows
    /\ attempt = 0
    /\ response = NoResponse
    /\ result = NoResult
    /\ cron = NoCron
    /\ trace = EmptyTrace
    /\ file = AbsentFile
    /\ written_by = "none"
    /\ crawl_log = <<>>
    /\ db = EmptyDb
    /\ hist = EmptyHist
    /\ StoreIdle

NextSession == IsSessionExpired

SpecSession == InitSession /\ [][NextSession]_vars

\* ------------------------------------------------- parser and storage
\* Strings are sequences of characters. "A" stands for a capital letter,
\* "/" for any character that is no capital letter, no digit, and none of
\* "-", "[" and "]". SymbolChars are the characters of [A-Z0-9-].
Chars == {"[", "]", "A", "-", "/"}
SymbolChars == {"A", "-"}
AlnumChars == {"A"}
Strings(n) == UNION {[1..m -> Chars] : m \in 0..n}

\* The number of characters of [A-Z0-9-] in s from position i on.
RECURSIVE RunLength(_, _)
RunLength(s, i) ==
    IF i <= Len(s) /\ s[i] \in SymbolChars THEN 1 + RunLength(s, i + 1)
    ELSE 0

\* A symbol taken with group(0), the brackets included.
SymbolWithBrackets(symbol_raw) ==
    LET n == RunLength(symbol_raw, 2)
    IN  IF /\ Len(symbol_raw) >= n + 2
           /\ symbol_raw[1] = "["
           /\ n >= 1
           /\ symbol_raw[n + 2] = "]"
          THEN SubSeq(symbol_raw, 1, n + 2)
          ELSE symbol_raw

\* symbol: group 1 of re.match(r'\[([A-Z0-9-]+)\]', symbol_raw) when the
\* pattern matches at the start, else symbol_raw.
Symbol(symbol_raw) ==
    LET n == RunLength(symbol_raw, 2)
    IN  IF /\ Len(symbol_raw) >= n + 2
           /\ symbol_raw[1] = "["
           /\ n >= 1
           /\ symbol_raw[n + 2] = "]"
          THEN SubSeq(symbol_raw, 2, n + 1)
          ELSE symbol_raw

\* The values a field of a row of the response can hold: a number, a
\* string float() parses, any other string, null, an integer beyond the
\* range of a float, or no such key.
Num(v) == [kind |-> "num", val |-> v]
NumStr(v) == [kind |-> "numstr", val |-> v]
Text == [kind |-> "text", val |-> 0]
Null == [kind |-> "null", val |-> 0]
Huge == [kind |-> "huge", val |-> 0]
Absent == [kind |-> "absent", val |-> 0]

\* float(x)
Float(x) ==
    CASE x.kind \in {"num", "numstr"} -> [exc |-> "none", val |-> x.val]
      [] x.kind = "text" -> [exc |-> "ValueError", val |-> 0]
      [] x.kind = "null" -> [exc |-> "TypeError", val |-> 0]
      [] x.kind = "huge" -> [exc |-> "OverflowError", val |-> 0]

\* item.get(field, 0)
Get(item, field) ==
    IF item[field].kind = "absent" THEN Num(0) ELSE item[field]

NumericFields == <<"netval", "bval", "sval", "bavg", "savg">>

\* The body of the loop of _parse_table_data for one item: the row, or the
\* first exception of the float() calls in argument order; an item that is
\* no dict has no get().
ParseItem(item, broker_code, table_type, crawl_date) ==
    IF item.kind # "dict" THEN [exc |-> "AttributeError"]
    ELSE LET f == [k \in DOMAIN NumericFields |->
                       Float(Get(item, NumericFields[k]))]
             bad == {k \in DOMAIN f : f[k].exc # "none"}
         IN  IF bad # {}
               THEN [exc |-> f[CHOOSE k \in bad : \A j \in bad : k <= j].exc]
               ELSE [exc |-> "none",
                     row |-> [broker_code |-> broker_code,
                              table_type |-> table_type,
                              symbol |-> Symbol(item.symbol),
                              netval |-> f[1].val,
                              bval |-> f[2].val,
                              sval |-> f[3].val,
                              bavg |-> f[4].val,
                              savg |-> f[5].val,
                              crawl_date |-> crawl_date]]

\* _parse_table_data from item k on: ValueError and TypeError skip the
\* item, any other exception leaves the function.
RECURSIVE ParseFrom(_, _, _, _, _, _)
ParseFrom(data, k, rows_, broker_code, table_type, crawl_date) ==
    IF k > Len(data) THEN [kind |-> "rows", rows |-> rows_]
    ELSE LET r == ParseItem(data[k], broker_code, table_type, crawl_date)
         IN  IF r.exc = "none"
               THEN ParseFrom(data, k + 1, Append(rows_, r.row), broker_code,
                              table_type, crawl_date)
             ELSE IF r.exc \in {"ValueError", "TypeError"}
               THEN ParseFrom(data, k + 1, rows_, broker_code, table_type,
                              crawl_date)
             ELSE [kind |-> "raised", exc |-> r.exc]

parse_table_data(data, broker_code, table_type, crawl_date) ==
    ParseFrom(data, 1, <<>>, broker_code, table_type, crawl_date)

\* str.isalpha and str.isalnum of a non-empty string.
IsAlpha(s) == s # <<>> /\ \A k \in DOMAIN s : s[k] = "A"
IsAlnum(s) == s # <<>> /\ \A k \in DOMAIN s : s[k] \in AlnumChars

\* A trade without a crawl_date.
NoDate == -1

\* Database._validate_trade
validate_trade(trade) ==
    /\ trade.broker_code # <<>>
    /\ trade.symbol # <<>>
    /\ trade.crawl_date # NoDate
    /\ 2 <= Len(trade.broker_code) /\ Len(trade.broker_code) <= 4
    /\ IsAlpha(trade.broker_code)
    /\ 1 <= Len(trade.symbol) /\ Len(trade.symbol) <= 10
    /\ (IsAlnum(trade.symbol)
           \/ \E k \in DOMAIN trade.symbol : trade.symbol[k] = "-")
    /\ trade.bval >= 0
    /\ trade.sval >= 0

\* execute_values sends at most page_size rows in one statement.
page_size == 100

\* The conflict target of the INSERT.
Key(v) == <<v.broker_code, v.symbol, v.trade_date>>

\* INSERT ... ON CONFLICT (broker_code, symbol, trade_date) DO UPDATE may
\* not affect a row twice: a statement with two rows of one key fails.
AffectsRowTwice(values) ==
    \E p \in 0..(Len(values) \div page_size) :
        \E i, j \in (p * page_size + 1)..Min((p + 1) * page_size, Len(values)) :
            i < j /\ Key(values[i]) = Key(values[j])

\* The table after the statements: the row of a key is the last of the
\* values with that key, and the rows of the other keys stay.
Upsert(table, values) ==
    {v \in table : \A k \in DOMAIN values : Key(values[k]) # Key(v)}
        \cup {values[k] : k \in {i \in DOMAIN values :
                 \A j \in DOMAIN values :
                     Key(values[j]) = Key(values[i]) => j <= i}}

\* Database.insert_broker_trades: what it returns (or raises), the
\* table afterwards, and valid_trades.
insert_broker_trades(table, trades_) ==
    LET valid == SelectSeq(trades_, validate_trade)
        crawl_date == valid[1].crawl_date
        values == [k \in DOMAIN valid |->
                      [broker_code |-> valid[k].broker_code,
                       symbol |-> valid[k].symbol,
                       trade_date |-> crawl_date,
                       netval |-> valid[k].netval,
                       bval |-> valid[k].bval,
                       sval |-> valid[k].sval,
                       bavg |-> valid[k].bavg,
                       savg |-> valid[k].savg]]
    IN  IF valid = <<>>
          THEN [kind |-> "returned", value |-> 0, table |-> table,
                valid |-> valid]
        ELSE IF AffectsRowTwice(values)
          THEN [kind |-> "raised", value |-> 0, table |-> table,
                valid |-> valid]
        ELSE [kind |-> "returned", value |-> Len(valid),
              table |-> Upsert(table, values), valid |-> valid]

\* Everything of the orchestration, which the parser and the storage layer
\* leave alone.
crawlVars == <<config, brokers, now, runs, entry, resume, logged_in,
               session_created_at, checkpoint, start_time, idx, all_data,
               successful_brokers, failed_brokers, rows, attempt, response,
               file, written_by, result, crawl_log, cron, db, trace, hist,
               api_cache, api>>

\* fetch_broker_data hands a table of the response to _parse_table_data;
\* the rows go on as dicts (to_dict).
ParseTableData ==
    /\ pc = "parse"
    /\ parsed' = parse_table_data(raw, <<"A", "A">>, "buy", 0)
    /\ IF parsed'.kind = "rows"
         THEN trades' = parsed'.rows /\ pc' = "insert"
         ELSE trades' = trades /\ pc' = "raised"
    /\ UNCHANGED <<crawlVars, raw, valid_trades, broker_trades, inserted>>

\* The rows that came out of _parse_table_data as its input.
AsItems(rows_) ==
    [k \in DOMAIN rows_ |->
        [kind |-> "dict",
         symbol |-> rows_[k].symbol,
         netval |-> Num(rows_[k].netval),
         bval |-> Num(rows_[k].bval),
         sval |-> Num(rows_[k].sval),
         bavg |-> Num(rows_[k].bavg),
         savg |-> Num(rows_[k].savg)]]

\* _parse_table_data is called on rows it gave itself.
ParseAgain ==
    /\ pc = "insert"
    /\ raw # NoRaw
    /\ parsed' = parse_table_data(AsItems(parsed.rows), <<"A", "A">>, "buy", 0)
    /\ pc' = "reparsed"
    /\ UNCHANGED <<crawlVars, raw, trades, valid_trades, broker_trades,
                   inserted>>

\* db.insert_broker_trades(trades), the first call and a second one with
\* the same list.
InsertBrokerTrades ==
    /\ pc \in {"insert", "inserted"}
    /\ LET r == insert_broker_trades(broker_trades, trades)
       IN  /\ inserted' = [kind |-> r.kind, value |-> r.value]
           /\ broker_trades' = r.table
           /\ valid_trades' = r.valid
    /\ pc' = IF pc = "insert" THEN "inserted" ELSE "reinserted"
    /\ UNCHANGED <<crawlVars, raw, parsed, trades>>

\* A row of the response: the fields of a well-formed row, one of them
\* replaced.
BaseItem(symbol) ==
    [kind |-> "dict", symbol |-> symbol, netval |-> Num(1), bval |-> Num(1),
     sval |-> Num(1), bavg |-> Num(1), savg |-> Num(1)]

OddValues == {Num(-1), NumStr(2), Text, Null, Huge, Absent}

NotADict ==
    [kind |-> "null", symbol |-> <<>>, netval |-> Absent, bval |-> Absent,
     sval |-> Absent, bavg |-> Absent, savg |-> Absent]

ItemSymbols == {<<"[", "A", "]", "/">>, <<"A", "A">>}

Items ==
    {NotADict}
        \cup {BaseItem(s) : s \in ItemSymbols}
        \cup {[BaseItem(s) EXCEPT ![NumericFields[k]] = v] :
                 s \in ItemSymbols, k \in DOMAIN NumericFields,
                 v \in OddValues}

\* A trade handed to insert_broker_trades directly: a valid one, one field
\* of it replaced.
BaseTrade(symbol) ==
    [broker_code |-> <<"A", "A">>, table_type |-> "buy", symbol |-> symbol,
     netval |-> 1, bval |-> 1, sval |-> 1, bavg |-> 1, savg |-> 1,
     crawl_date |-> 0]

TradeSymbols == {<<"A">>, <<"A", "A">>}

Trades ==
    UNION {{BaseTrade(s),
            [BaseTrade(s) EXCEPT !.broker_code = <<"A">>],
            [BaseTrade(s) EXCEPT !.broker_code = <<>>],
            [BaseTrade(s) EXCEPT !.symbol = <<>>],
            [BaseTrade(s) EXCEPT !.table_type = "sell"],
            [BaseTrade(s) EXCEPT !.table_type = "invalid"],
            [BaseTrade(s) EXCEPT !.table_type = "absent"],
            [BaseTrade(s) EXCEPT !.crawl_date = NoDate],
            [BaseTrade(s) EXCEPT !.crawl_date = 1],
            [BaseTrade(s) EXCEPT !.netval = -1],
            [BaseTrade(s) EXCEPT !.bval = -1],
            [BaseTrade(s) EXCEPT !.sval = -1],
            [BaseTrade(s) EXCEPT !.bavg = -1],
            [BaseTrade(s) EXCEPT !.savg = -1]} : s \in TradeSymbols}

Batches(S) == UNION {[1..m -> S] : m \in 1..MaxBatch}

\* One table of a response goes through the parser and into storage, or a
\* list of trades goes into storage; the table holds nothing or one row.
InitStore ==
    /\ config \in DefaultConfigs
    /\ config.has_credentials
    /\ brokers = SubSeq(AllCodes, 1, 1)
    /\ now = 0
    /\ runs = 1
    /\ entry = "store"
    /\ resume = FALSE
    /\ ProcessInit
    /\ file = AbsentFile
    /\ written_by = "none"
    /\ crawl_log = <<>>
    /\ db = EmptyDb
    /\ hist = EmptyHist
    /\ parsed = NoParsed
    /\ valid_trades = <<>>
    /\ inserted = NoInserted
    /\ broker_trades = {}
    /\ api_cache = NoCache
    /\ api = NoCache
    /\ \/ /\ pc = "parse"
          /\ raw \in Batches(Items)
                    \cup {<<BaseItem(s)>> : s \in Strings(MaxSymbolLen)}
          /\ trades = <<>>
       \/ /\ pc = "insert"
          /\ raw = NoRaw
          /\ trades \in Batches(Trades)

NextStore ==
    \/ ParseTableData
    \/ ParseAgain
    \/ InsertBrokerTrades

SpecStore == InitStore /\ [][NextStore]_vars

\* ------------------------------------------- the tables of a response
\* A child of a container of the response: a dict with a type and props,
\* or something that is no dict. props is a dict (with or without "data")
\* or null.
Child(type, props, has_data, data) ==
    [kind |-> "dict", type |-> type, props |-> props, has_data |-> has_data,
     data |-> data]
LabelChild == Child("Label", "dict", FALSE, <<>>)
DataTable(data) == Child("DataTable", "dict", TRUE, data)

\* resp_data.get(id, {}) of one category: the key is absent, null, an
\* empty dict, a dict without "children", a dict whose "children" is
\* null, or a dict with a list of children.
Component(kind, children) == [kind |-> kind, children |-> children]

\* _extract_table_data_from_children from child k on; NoResponse is the
\* value None.
RECURSIVE ExtractFrom(_, _)
ExtractFrom(children, k) ==
    IF k > Len(children) THEN NoResponse
    ELSE IF children[k].kind = "dict" /\ children[k].type = "DataTable"
      THEN IF children[k].props = "null"
             THEN [kind |-> "raised", exc |-> "AttributeError"]
           ELSE IF children[k].has_data
             THEN [kind |-> "data", data |-> children[k].data]
           ELSE [kind |-> "data", data |-> <<>>]
    ELSE ExtractFrom(children, k + 1)

\* BrokerCrawler._extract_table_data_from_children
extract_table_data_from_children(component) ==
    IF component.kind \in {"absent", "null", "empty", "no_children"}
      THEN NoResponse
    ELSE IF component.kind = "children_null"
      THEN [kind |-> "raised", exc |-> "TypeError"]
    ELSE ExtractFrom(component.children, 1)

\* One category of fetch_broker_data: if the extracted data is truthy its
\* parsed rows, else no rows.
CategoryRows(component, broker_code, table_type, crawl_date) ==
    LET d == extract_table_data_from_children(component)
    IN  IF d.kind = "raised" THEN d
        ELSE IF d.kind = "None" \/ d.data = <<>>
          THEN [kind |-> "rows", rows |-> <<>>]
        ELSE parse_table_data(d.data, broker_code, table_type, crawl_date)

\* fetch_broker_data from resp_data on: the buy rows, then the sell rows.
fetch_rows(body, broker_code, crawl_date) ==
    LET buy == CategoryRows(body.buy, broker_code, "buy", crawl_date)
    IN  IF buy.kind = "raised" THEN buy
        ELSE LET sell == CategoryRows(body.sell, broker_code, "sell",
                                      crawl_date)
             IN  IF sell.kind = "raised" THEN sell
                 ELSE [kind |-> "rows", rows |-> buy.rows \o sell.rows]

\* fetch_broker_data after _send_dash_request returned a response with
\* its two containers.
FetchBrokerDataParse ==
    /\ pc = "sent"
    /\ response.kind = "json"
    /\ response.body.kind = "components"
    /\ parsed' = fetch_rows(response.body, brokers[idx + 1], Today(now))
    /\ rows' = IF parsed'.kind = "rows"
                 THEN [kind |-> "rows", n |-> Len(parsed'.rows)]
                 ELSE [kind |-> "raised"]
    /\ pc' = "fetched"
    /\ attempt' = 0
    /\ trace' = EmptyTrace
    /\ hist' = Fetched(rows')
    /\ UNCHANGED <<envVars, api_cache, api, response, raw, trades, valid_trades,
                   broker_trades, inserted, now, runs, entry, resume, crawlerVars,
                   checkpoint, start_time, idx, all_data, successful_brokers,
                   failed_brokers, result, file, written_by, cronVars>>

\* The rows of a DataTable: well-formed, with a netval that is no number,
\* or no dict at all.
Tables ==
    UNION {[1..m -> {BaseItem(<<"A", "A">>),
                     [BaseItem(<<"A", "A">>) EXCEPT !.netval = Text],
                     NotADict}] : m \in 0..MaxRows}

Components ==
    {Component(k, <<>>) :
        k \in {"absent", "null", "empty", "no_children", "children_null"}}
      \cup {Component("children", c) :
               c \in {<<>>, <<LabelChild>>,
                      <<[LabelChild EXCEPT !.kind = "str"]>>,
                      <<Child("DataTable", "null", FALSE, <<>>)>>,
                      <<LabelChild,
                        Child("DataTable", "dict", FALSE, <<>>)>>}}
      \cup {Component("children", <<LabelChild, DataTable(d)>>) : d \in Tables}
      \cup {Component("children", <<DataTable(d)>>) : d \in Tables}

\* crawl_all_brokers has sent the request of its first entity and the
\* response is there.
InitFetch ==
    /\ config \in DefaultConfigs
    /\ config.has_credentials
    /\ brokers = SubSeq(AllCodes, 1, 1)
    /\ now = 0
    /\ runs = 1
    /\ pc = "sent"
    /\ entry = "cli"
    /\ resume = FALSE
    /\ logged_in = TRUE
    /\ session_created_at = 0
    /\ checkpoint = NoCheckpoint
    /\ start_time = 0
    /\ idx = 0
    /\ all_data = <<>>
    /\ successful_brokers = <<>>
    /\ failed_brokers = <<>>
    /\ rows = NoRows
    /\ attempt = 0
    /\ response \in {[kind |-> "json",
                      body |-> [kind |-> "components", buy |-> b, sell |-> s]] :
                        b \in Components, s \in Components}
    /\ result = NoResult
    /\ cron = NoCron
    /\ trace = EmptyTrace
    /\ file = AbsentFile
    /\ written_by = "none"
    /\ crawl_log = <<>>
    /\ db = EmptyDb
    /\ hist = [EmptyHist EXCEPT !.fetched = <<0>>]
    /\ StoreIdle

NextFetch ==
    \/ FetchBrokerDataParse
    \/ RecordOutcome

SpecFetch == InitFetch /\ [][NextFetch]_vars

\* -------------------------------------------------- api.py: the cache
\* Wall-clock minutes; minute 0 is a Monday 00:00 UTC.
MaxCalls == 3
MaxVersion == 1
MaxClears == 1
MaxAdvances == 2
WeekDays == 7
CrawlMinuteUtc == 13 * 60
MinTtlMinutes == 60 \div 60
MaxTtlMinutes == 5 * DayMinutes

\* while next_crawl.weekday() >= 5: next_crawl += timedelta(days=1)
\* (weekday 5 is Saturday, 6 Sunday)
RECURSIVE SkipWeekend(_)
SkipWeekend(t) ==
    IF (t \div DayMinutes) % WeekDays >= 5 THEN SkipWeekend(t + DayMinutes)
    ELSE t

\* get_seconds_until_next_crawl at minute t, in minutes.
get_seconds_until_next_crawl(t) ==
    LET today == (t \div DayMinutes) * DayMinutes + CrawlMinuteUtc
        next_crawl == SkipWeekend(IF t >= today THEN today + DayMinutes
                                  ELSE today)
        seconds == next_crawl - t
    IN  IF Min(seconds, MaxTtlMinutes) >= MinTtlMinutes
          THEN Min(seconds, MaxTtlMinutes)
          ELSE MinTtlMinutes

\* The cache keys looked at: f"{func.__name__}:{_make_cache_key(...)}" of
\* one endpoint for two argument lists.
CacheKeys == {[func |-> "get_broker_trades", args |-> "A"],
              [func |-> "get_broker_trades", args |-> "B"]}

NoEntry == [kind |-> "none"]

\* TTLCache: an item stored at t is there until t + ttl; whether it is
\* still there at that very instant depends on the release of the
\* library (live_at_expiry).
Live(e, t, live_at_expiry) ==
    /\ e.kind = "entry"
    /\ \/ t < e.expires
       \/ t = e.expires /\ live_at_expiry

\* TTLCache(maxsize=2000, ttl=...)
TTLCache(ttl, live_at_expiry) ==
    [kind |-> "TTLCache", ttl |-> ttl, live_at_expiry |-> live_at_expiry,
     items |-> [k \in CacheKeys |-> NoEntry]]

\* What the cache remembers of the calls: the state of the data the
\* endpoints read (version), the number of clears, calls and clock steps,
\* the last call, and per key the result of its last call that returned
\* since the last clear, until when its entry lasts, and whether the
\* entry has been pushed out since.
IdleApi ==
    [kind |-> "api", version |-> 0, clears |-> 0, calls |-> 0,
     advances |-> 0, last |-> NoEntry,
     last_ok |-> [k \in CacheKeys |-> NoEntry]]

\* wrapper of cached_endpoint for the call with key k: a stored result
\* is returned; else the endpoint runs and raises, or its result is
\* stored (which drops the items that have expired) and returned.
CachedCall(k, raises) ==
    /\ pc = "api"
    /\ api.calls < MaxCalls
    /\ LET e == api_cache.items[k]
           value == [version |-> api.version, epoch |-> api.clears,
                     raised |-> raises]
           entry_ == [kind |-> "entry", value |-> value,
                      expires |-> now + api_cache.ttl]
       IN  IF Live(e, now, api_cache.live_at_expiry)
             THEN /\ api_cache' = api_cache
                  /\ api' = [api EXCEPT
                        !.calls = @ + 1,
                        !.last = [kind |-> "hit", key |-> k,
                                  value |-> e.value, executed |-> FALSE]]
           ELSE IF raises
             THEN /\ api_cache' = api_cache
                  /\ api' = [api EXCEPT
                        !.calls = @ + 1,
                        !.last = [kind |-> "raised", key |-> k,
                                  value |-> value, executed |-> TRUE]]
           ELSE /\ api_cache' = [api_cache EXCEPT !.items =
                        [j \in CacheKeys |->
                            IF j = k THEN entry_
                            ELSE IF Live(@[j], now, api_cache.live_at_expiry)
                              THEN @[j]
                            ELSE NoEntry]]
                /\ api' = [api EXCEPT
                        !.calls = @ + 1,
                        !.last = [kind |-> "miss", key |-> k,
                                  value |-> value, executed |-> TRUE],
                        !.last_ok[k] = [kind |-> "entry", value |-> value,
                                        valid_until |-> entry_.expires,
                                        evicted |-> FALSE]]
    /\ UNCHANGED <<pc, config, brokers, now, runs, entry, resume, logged_in,
                   session_created_at, checkpoint, start_time, idx, all_data,
                   successful_brokers, failed_brokers, rows, attempt,
                   response, file, written_by, result, crawl_log, cron, db,
                   trace, hist, raw, parsed, trades, valid_trades,
                   broker_trades, inserted>>

\* A refresh of the TTL without the clear before it.
ClearCacheKeepsItems ==
    /\ pc = "api"
    /\ api.clears < MaxClears
    /\ api_cache' = [api_cache EXCEPT
                        !.ttl = get_seconds_until_next_crawl(now)]
    /\ api' = [api EXCEPT !.clears = @ + 1,
                          !.last = NoEntry,
                          !.last_ok = [k \in CacheKeys |-> NoEntry]]
    /\ UNCHANGED <<pc, config, brokers, now, runs, entry, resume, logged_in,
                   session_created_at, checkpoint, start_time, idx, all_data,
                   successful_brokers, failed_brokers, rows, attempt,
                   response, file, written_by, result, crawl_log, cron, db,
                   trace, hist, raw, parsed, trades, valid_trades,
                   broker_trades, inserted>>

\* clear_api_cache() and then refresh_cache_ttl(), as run_daily_crawl and
\* the two clear endpoints call them.
ClearCache ==
    /\ pc = "api"
    /\ api.clears < MaxClears
    /\ api_cache' = TTLCache(get_seconds_until_next_crawl(now),
                             api_cache.live_at_expiry)
    /\ api' = [api EXCEPT !.clears = @ + 1,
                          !.last = NoEntry,
                          !.last_ok = [k \in CacheKeys |-> NoEntry]]
    /\ UNCHANGED <<pc, config, brokers, now, runs, entry, resume, logged_in,
                   session_created_at, checkpoint, start_time, idx, all_data,
                   successful_brokers, failed_brokers, rows, attempt,
                   response, file, written_by, result, crawl_log, cron, db,
                   trace, hist, raw, parsed, trades, valid_trades,
                   broker_trades, inserted>>

\* Calls with maxsize other keys have stored their results: each store
\* into the full cache pushed out the oldest item, so none of the keys
\* looked at is left.
OtherCallsFillCache ==
    /\ pc = "api"
    /\ api.calls < MaxCalls
    /\ \E k \in CacheKeys : api_cache.items[k] # NoEntry
    /\ api_cache' = [api_cache EXCEPT !.items = [k \in CacheKeys |-> NoEntry]]
    /\ api' = [api EXCEPT
                  !.calls = @ + 1,
                  !.last = NoEntry,
                  !.last_ok = [k \in CacheKeys |->
                                  IF @[k] = NoEntry THEN NoEntry
                                  ELSE [@[k] EXCEPT !.evicted = TRUE]]]
    /\ UNCHANGED <<pc, config, brokers, now, runs, entry, resume, logged_in,
                   session_created_at, checkpoint, start_time, idx, all_data,
                   successful_brokers, failed_brokers, rows, attempt,
                   response, file, written_by, result, crawl_log, cron, db,
                   trace, hist, raw, parsed, trades, valid_trades,
                   broker_trades, inserted>>

\* A crawl has stored new data for the endpoints to read.
DataChanges ==
    /\ pc = "api"
    /\ api.version < MaxVersion
    /\ api' = [api EXCEPT !.version = @ + 1, !.last = NoEntry]
    /\ UNCHANGED <<pc, config, brokers, now, runs, entry, resume, logged_in,
                   session_created_at, checkpoint, start_time, idx, all_data,
                   successful_brokers, failed_brokers, rows, attempt,
                   response, file, written_by, result, crawl_log, cron, db,
                   trace, hist, raw, parsed, trades, valid_trades,
                   broker_trades, inserted, api_cache>>

\* Time passes between two requests.
Advance(d) ==
    /\ pc = "api"
    /\ api.advances < MaxAdvances
    /\ now' = now + d
    /\ api' = [api EXCEPT !.advances = @ + 1, !.last = NoEntry]
    /\ UNCHANGED <<pc, config, brokers, runs, entry, resume, logged_in,
                   session_created_at, checkpoint, start_time, idx, all_data,
                   successful_brokers, failed_brokers, rows, attempt,
                   response, file, written_by, result, crawl_log, cron, db,
                   trace, hist, raw, parsed, trades, valid_trades,
                   broker_trades, inserted, api_cache>>

\* api.py is loaded on a Monday shortly before the crawl hour, on a
\* Friday at the crawl hour, or on a Saturday.
InitApi ==
    /\ config \in DefaultConfigs
    /\ config.has_credentials
    /\ brokers = SubSeq(AllCodes, 1, 1)
    /\ now \in {CrawlMinuteUtc - 1, 4 * DayMinutes + CrawlMinuteUtc,
               5 * DayMinutes}
    /\ runs = 1
    /\ pc = "api"
    /\ entry = "api"
    /\ resume = FALSE
    /\ ProcessInit
    /\ file = AbsentFile
    /\ written_by = "none"
    /\ crawl_log = <<>>
    /\ db = EmptyDb
    /\ hist = EmptyHist
    /\ raw = NoRaw
    /\ parsed = NoParsed
    /\ trades = <<>>
    /\ valid_trades = <<>>
    /\ broker_trades = {}
    /\ inserted = NoInserted
    /\ \E b \in BOOLEAN :
           api_cache = TTLCache(get_seconds_until_next_crawl(now), b)
    /\ api = IdleApi

NextApi ==
    \/ \E k \in CacheKeys, raises \in BOOLEAN : CachedCall(k, raises)
    \/ ClearCache
    \/ OtherCallsFillCache
    \/ DataChanges
    \/ \E d \in {1, DayMinutes} : Advance(d)

SpecApi == InitApi /\ [][NextApi]_vars

\* -------------------------------------- run_daily_crawl, every return
\* The cron job alone, with the exceptions its handler catches.
NextLog ==
    \/ \E d \in {0} \cup StartDelays, trading_day \in BOOLEAN,
          db_ok \in BOOLEAN :
           StartCron(d, trading_day, db_ok)
    \/ \E lo \in LoginOutcomes : Login(lo)
    \/ CrawlStart
    \/ \E lo \in LoginOutcomes : ProcessBroker(lo)
    \/ FetchBrokerData
    \/ \E body \in Bodies : SendAttempt("ok", body, "ok")
    \/ \E lo \in LoginOutcomes : SendAttempt("auth", NoBody, lo)
    \/ \E o \in Transient \cup NonRetryable : SendAttempt(o, NoBody, "ok")
    \/ SendExhausted
    \/ FetchBrokerDataReturn
    \/ RecordOutcome
    \/ SaveCheckpointOpen
    \/ SaveCheckpointWrite
    \/ \E d \in Elapsed : RateLimitSleep(d)
    \/ CrawlFinish
    \/ CronInsert
    \/ CronRate
    \/ CronMarkSuccess
    \/ CronException
    \/ MainExit
    \/ Exit
    \/ Kill

SpecLog == Init /\ [][NextLog]_vars

\* ----------------------------------------- crawl_all_brokers, to its end
\* main has logged in and calls crawl_all_brokers once, without resume,
\* for any max_retries.
InitTerm ==
    /\ config \in {c \in SendConfigs :
                      /\ c.retry_base_delay = retry_base_delay_default
                      /\ c.retry_max_delay = retry_max_delay_default
                      /\ c.has_credentials}
    /\ brokers \in {SubSeq(AllCodes, 1, n) : n \in 0..MaxBrokers}
    /\ now = 0
    /\ runs = 1
    /\ pc = "crawl"
    /\ entry = "cli"
    /\ resume = FALSE
    /\ logged_in = TRUE
    /\ session_created_at = 0
    /\ checkpoint = NoCheckpoint
    /\ start_time = 0
    /\ idx = 0
    /\ all_data = <<>>
    /\ successful_brokers = <<>>
    /\ failed_brokers = <<>>
    /\ rows = NoRows
    /\ attempt = 0
    /\ response = NoResponse
    /\ result = NoResult
    /\ cron = NoCron
    /\ trace = EmptyTrace
    /\ file = AbsentFile
    /\ written_by = "none"
    /\ crawl_log = <<>>
    /\ db = EmptyDb
    /\ hist = EmptyHist
    /\ StoreIdle

NextTerm ==
    \/ CrawlStart
    \/ \E lo \in LoginOutcomes : ProcessBroker(lo)
    \/ FetchBrokerData
    \/ \E body \in Bodies : SendAttempt("ok", body, "ok")
    \/ \E lo \in LoginOutcomes : SendAttempt("auth", NoBody, lo)
    \/ \E o \in Transient \cup NonRetryable : SendAttempt(o, NoBody, "ok")
    \/ SendExhausted
    \/ FetchBrokerDataReturn
    \/ RecordOutcome
    \/ SaveCheckpointOpen
    \/ SaveCheckpointWrite
    \/ \E d \in Elapsed : RateLimitSleep(d)
    \/ CrawlFinish

\* The process keeps running: whenever a step of the crawl is possible,
\* one is taken (every request is answered or times out).
SpecTerm == InitTerm /\ [][NextTerm]_vars /\ WF_vars(NextTerm)

\* ------------------------------------------------------------ properties
Range(q) == {q[k] : k \in DOMAIN q}
Indices(a, b) == [j \in 1..(b - a) |-> a + j - 1]
CodesAt(q) == [j \in DOMAIN q |-> brokers[q[j] + 1]]
NoDuplicates(q) == \A j, k \in DOMAIN q : j # k => q[j] # q[k]

\* C1: an entity whose fetch fails (retries exhausted, no data, exception)
\* is recorded in the failed list and the loop goes on to the entities
\* after it: crawl_all_brokers returns a result for the whole list, never
\* an abort. With [A, B, C] and only B failing the summary says
\* successful 2, failed 1, failed ids [B].
C1_FailureRecordedRunContinues ==
    /\ \A k \in Range(hist.failed) :
           (k # idx \/ pc # "fetched") =>
               brokers[k + 1] \in Range(failed_brokers)
    /\ pc = "crawled" =>
           /\ result.kind = "result"
           /\ hist.fetched =
                  Indices(IF checkpoint.kind = "none" THEN 0
                          ELSE checkpoint.last_broker_index + 1,
                          Len(brokers))
           /\ \A k \in Range(hist.failed) :
                  brokers[k + 1] \in Range(result.failed_broker_codes)
    /\ (/\ pc = "crawled"
        /\ brokers = <<"A", "B", "C">>
        /\ checkpoint.kind = "none"
        /\ hist.failed = <<1>>) =>
           /\ result.successful_brokers = 2
           /\ result.failed_brokers = 1
           /\ result.failed_broker_codes = <<"B">>

C1_Witness ==
    /\ pc = "crawled"
    /\ brokers = <<"A", "B", "C">>
    /\ checkpoint.kind = "none"
    /\ hist.fetched = <<0, 1, 2>>
    /\ hist.failed = <<1>>
    /\ result.failed_broker_codes = <<"B">>
    /\ result.successful_brokers = 2

\* C2: a process killed anywhere in the loop after at least one entity
\* leaves a complete checkpoint on disk, one that a load parses and that
\* lacks at most the entity in progress.
C2_CrashLosesAtMostOneEntity ==
    [][(pc \in LoopPcs /\ pc' = "idle" /\ idx >= 1) =>
          /\ file'.kind = "checkpoint"
          /\ file'.last_broker_index >= idx - 1
          /\ load_checkpoint(file', file'.started_at) = file']_vars

\* C3: a run that resumes from a valid checkpoint with last_broker_index k
\* fetches the indices k+1..N-1 in order and nothing at or below k, and
\* its final lists and records are the checkpoint's followed by the new
\* outcomes.
C3_ResumeFetchesOnlyTheRest ==
    (resume /\ hist.found.kind = "checkpoint") =>
        LET k == hist.found.last_broker_index
        IN  /\ \A j \in Range(hist.fetched) : j > k
            /\ hist.fetched = Indices(k + 1, k + 1 + Len(hist.fetched))
            /\ pc = "crawled" =>
                   /\ result.kind = "result"
                   /\ hist.fetched = Indices(k + 1, Len(brokers))
                   /\ result.data = hist.found.partial_data \o hist.new_data
                   /\ result.successful_broker_codes =
                          hist.found.completed_brokers \o CodesAt(hist.ok)
                   /\ result.failed_broker_codes =
                          hist.found.failed_brokers \o CodesAt(hist.failed)

C3_Witness ==
    /\ pc = "crawled"
    /\ resume
    /\ hist.found.kind = "checkpoint"
    /\ hist.found.last_broker_index = 0
    /\ Len(hist.found.partial_data) > 0
    /\ hist.fetched = <<1, 2>>
    /\ hist.ok = <<2>>
    /\ hist.failed = <<1>>
    /\ result.resumed

\* C4: a run_daily_crawl that starts while the checkpoint of a killed
\* run_daily_crawl is on disk and still fresh resumes: it fetches only
\* entities after the last checkpointed one and reports resumed.
C4_NextCronRunResumes ==
    (/\ entry = "cron"
     /\ hist.found.kind = "checkpoint"
     /\ hist.found_by = "cron") =>
        /\ \A j \in Range(hist.fetched) : j > hist.found.last_broker_index
        /\ pc = "crawled" => result.resumed

\* C5: one call of _send_dash_request refreshes the session at most once.
C5_AtMostOneRefreshPerRequest == trace.refreshes <= 1

\* C6: _send_dash_request never returns while a session it has just
\* refreshed successfully is still waiting for the request to be resent.
C6_ResentAfterRefresh == pc = "sent" => ~trace.resend_pending

\* C7: one call sends at most max_retries requests whatever the outcomes;
\* server errors, timeouts and connection failures draw on that one
\* budget, and a call that used it up on them returns None.
C7_RequestsWithinBudget ==
    /\ trace.posts <= config.max_retries
    /\ Len(trace.delays) <= trace.posts
    /\ (pc = "sent" /\ trace.last_outcome \in Transient) =>
           /\ trace.posts = config.max_retries
           /\ response = NoResponse

C7_Witness ==
    /\ pc = "sent"
    /\ config.max_retries = 3
    /\ trace.posts = 3
    /\ {trace.delays[k].after : k \in DOMAIN trace.delays} = Transient
    /\ response = NoResponse

\* C8: an attempt that ends in an error that is neither auth, 5xx, timeout
\* nor connection failure makes the call return None at once: no backoff
\* sleep, no session refresh, no further request.
C8_NonRetryableFailsAtOnce ==
    [][(pc = "send" /\ trace'.last_outcome \in NonRetryable) =>
          /\ pc' = "sent"
          /\ response' = NoResponse
          /\ trace'.posts = trace.posts + 1
          /\ trace'.delays = trace.delays
          /\ trace'.refreshes = trace.refreshes
          /\ logged_in' = logged_in
          /\ session_created_at' = session_created_at]_vars

C8_Witness ==
    /\ pc = "sent"
    /\ trace.last_outcome = "bad_json"
    /\ trace.posts = 2
    /\ Len(trace.delays) = 1
    /\ response = NoResponse

\* C9: the delay slept after a transient failure on attempt a is
\* min(retry_base_delay * 2^a, retry_max_delay) whatever the kind of
\* failure; successive delays never decrease and never exceed
\* retry_max_delay.
C9_BackoffCappedMonotone ==
    /\ \A k \in DOMAIN trace.delays :
           /\ trace.delays[k].after \in Transient
           /\ trace.delays[k].delay =
                  Min(config.retry_base_delay * (2 ^ trace.delays[k].attempt),
                      config.retry_max_delay)
           /\ trace.delays[k].delay <= config.retry_max_delay
    /\ \A j, k \in DOMAIN trace.delays :
           j < k => /\ trace.delays[j].attempt < trace.delays[k].attempt
                    /\ trace.delays[j].delay <= trace.delays[k].delay

C9_Witness ==
    /\ Len(trace.delays) = 3
    /\ trace.delays[1].after = "server_error"
    /\ trace.delays[2].after = "timeout"
    /\ trace.delays[3].after = "connection_error"
    /\ trace.delays[1].delay < trace.delays[2].delay
    /\ trace.delays[3].delay = config.retry_max_delay
    /\ config.retry_base_delay * (2 ^ trace.delays[3].attempt)
           > config.retry_max_delay

\* C10: a run without resume that reaches the end of the list ends with
\* len(successful codes) + len(failed codes) = N and no id twice across
\* the two lists.
C10_EveryEntityInOneList ==
    (pc = "crawled" /\ checkpoint.kind = "none") =>
        /\ result.kind = "result"
        /\ ~result.resumed
        /\ Len(result.successful_broker_codes)
               + Len(result.failed_broker_codes) = Len(brokers)
        /\ result.successful_brokers + result.failed_brokers
               = result.total_brokers
        /\ NoDuplicates(result.successful_broker_codes
                            \o result.failed_broker_codes)

C10_Witness ==
    /\ pc = "crawled"
    /\ checkpoint.kind = "none"
    /\ Len(brokers) = MaxBrokers
    /\ Len(result.successful_broker_codes) = 1
    /\ Len(result.failed_broker_codes) = MaxBrokers - 1

\* C11: every checkpoint a non-resumed run writes has last_broker_index =
\* len(completed_brokers) + len(failed_brokers) - 1, and its two lists
\* hold exactly the ids of the entities processed so far, each once.
C11_CheckpointIndexMatchesLists ==
    [][(pc = "save_write" /\ pc' = "sleep" /\ checkpoint.kind = "none") =>
          /\ file'.kind = "checkpoint"
          /\ file'.last_broker_index =
                 Len(file'.completed_brokers) + Len(file'.failed_brokers) - 1
          /\ file'.last_broker_index = idx
          /\ file'.last_broker_code = brokers[idx + 1]
          /\ Range(file'.completed_brokers \o file'.failed_brokers) =
                 {brokers[j + 1] : j \in 0..idx}
          /\ NoDuplicates(file'.completed_brokers \o file'.failed_brokers)
      ]_vars

C11_Witness ==
    /\ pc = "sleep"
    /\ checkpoint.kind = "none"
    /\ file.kind = "checkpoint"
    /\ file.last_broker_index = 2
    /\ file.completed_brokers = <<"A", "C">>
    /\ file.failed_brokers = <<"B">>

\* C12: whatever corrupt or unreadable content the checkpoint file has,
\* crawl_all_brokers(resume=True) gets "absent" from _load_checkpoint, no
\* exception, and starts a fresh run at index 0 with empty lists.
C12_CorruptCheckpointIsAbsent ==
    [][(pc = "crawl" /\ logged_in /\ resume /\ file \in CorruptFiles) =>
          /\ pc' = "loop"
          /\ checkpoint' = NoCheckpoint
          /\ idx' = 0
          /\ successful_brokers' = <<>>
          /\ failed_brokers' = <<>>
          /\ all_data' = <<>>]_vars

\* C13: a resume-enabled run takes a checkpoint from the file only when
\* the file holds one whose started_at is at most two hours old; when it
\* is older the load gives absent and the run starts at index 0 with
\* empty lists.
C13_StaleCheckpointIsAbsent ==
    [][(pc = "crawl" /\ logged_in /\ resume) =>
          /\ checkpoint'.kind = "checkpoint" =>
                 /\ file.kind = "checkpoint"
                 /\ checkpoint' = file
                 /\ now - file.started_at <= 2 * 60
          /\ (file.kind = "checkpoint" /\ now - file.started_at > 2 * 60) =>
                 /\ pc' = "loop"
                 /\ checkpoint' = NoCheckpoint
                 /\ idx' = 0
                 /\ successful_brokers' = <<>>
                 /\ failed_brokers' = <<>>
                 /\ all_data' = <<>>
          /\ (file.kind = "checkpoint" /\ now - file.started_at <= 2 * 60) =>
                 checkpoint' = file]_vars

C13_Witness ==
    /\ pc = "loop"
    /\ resume
    /\ file.kind = "checkpoint"
    /\ file.last_broker_index = 1
    /\ now - file.started_at = 2 * 60 + 1
    /\ checkpoint = NoCheckpoint
    /\ idx = 0
    /\ hist.fetched = <<>>

\* The state crawl_all_brokers is in when its loop has gone through the
\* whole list: every entity is in one of the two lists.
WholeListProcessed ==
    /\ pc = "loop"
    /\ idx >= Len(brokers)
    /\ Range(successful_brokers \o failed_brokers) = Range(brokers)

\* C14 as stated: the checkpoint file goes from present to absent only in
\* the step that ends a run which has processed every entity.
C14_ClearedOnlyAfterFullRun ==
    [][(file.kind # "absent" /\ file'.kind = "absent") =>
          (WholeListProcessed /\ pc' = "crawled"
              /\ result'.kind = "result")]_vars

\* C14 amended: the checkpoint file goes from present to absent only in
\* the step that ends a run which has processed every entity, or when
\* main is started with --fresh, before it has processed any.
C14_ClearedAfterFullRunOrFresh ==
    [][(file.kind # "absent" /\ file'.kind = "absent") =>
          \/ (WholeListProcessed /\ pc' = "crawled"
                 /\ result'.kind = "result" /\ hist'.cleared = "finish")
          \/ (pc = "idle" /\ pc' = "cli_login" /\ entry' = "cli"
                 /\ hist'.cleared = "fresh")]_vars

C14_Witness ==
    /\ hist.cleared = "fresh"
    /\ entry = "cli"
    /\ pc = "loop"
    /\ idx = 0
    /\ hist.fetched = <<>>
    /\ file = AbsentFile

\* C15: _ensure_session_valid logs in again whenever the session is
\* expired or stale, the unauthenticated session included: a run that
\* lost its session has it back at the next entity when the login it
\* makes there goes through.
C15_LostSessionRecovers ==
    (/\ pc = "loop"
     /\ idx < Len(brokers)
     /\ config.has_credentials
     /\ is_session_expired(Session(logged_in, session_created_at), now)) =>
        ENABLED (ProcessBroker("ok") /\ logged_in' /\ session_created_at' = now)

\* C16: when the loop reaches an entity with an authenticated session
\* whose age has reached session_max_age_minutes, _ensure_session_valid
\* logs in exactly once before the fetch, and the request of that fetch
\* goes out under a session created at that moment; with an authenticated
\* session younger than that it makes no login and leaves _logged_in and
\* _session_created_at as they are.
C16_OneReloginBeforeNextFetch ==
    [][/\ (pc = "loop" /\ pc' = "fetch" /\ logged_in) =>
             IF now - session_created_at >= 25
               THEN /\ \A lo \in LoginOutcomes :
                          ensure_session_valid(
                              Session(logged_in, session_created_at),
                              lo, now).logins = 1
                    /\ logged_in' => session_created_at' = now
                    /\ ~logged_in' => session_created_at' = -1
               ELSE /\ \A lo \in LoginOutcomes :
                          ensure_session_valid(
                              Session(logged_in, session_created_at),
                              lo, now).logins = 0
                    /\ UNCHANGED <<logged_in, session_created_at>>
       /\ (pc = "fetch" /\ pc' = "send") =>
             /\ logged_in
             /\ session_created_at >= 0
             /\ now - session_created_at < 25
      ]_vars

C16_Witness ==
    /\ entry = "cron"
    /\ pc = "send"
    /\ attempt = 0
    /\ idx = 1
    /\ now = 25
    /\ logged_in
    /\ session_created_at = 25

\* C17: whatever logins, refreshes, validity checks and requests have
\* happened and however they ended, _logged_in true implies that
\* _session_created_at is set.
C17_LoggedInHasCreationTime ==
    /\ logged_in => session_created_at # -1
    /\ session_created_at # -1 => (logged_in /\ session_created_at <= now)

C17_Witness ==
    /\ pc = "send"
    /\ attempt = 2
    /\ idx = 1
    /\ logged_in
    /\ session_created_at = now
    /\ now = 25

\* C18: when login() fails at the start of run_daily_crawl the run is
\* over: status error, the crawl log entry it started marked failed, no
\* entity fetched, no trade row and no aggregate written, the checkpoint
\* untouched. When the database cannot be reached the run ends with
\* status error before a crawl log entry, a login or a crawl.
C18_NoAuthAbortsTheRun ==
    [][/\ (entry = "cron" /\ pc = "cron_login" /\ pc' # "idle"
             /\ ~logged_in') =>
             /\ pc' = "exit"
             /\ cron'.status = "error"
             /\ crawl_log'[cron.crawl_log_id].status = "failed"
             /\ Len(crawl_log') = Len(crawl_log)
             /\ db' = db
             /\ file' = file
             /\ hist'.fetched = <<>>
       /\ (pc = "idle" /\ entry' = "cron" /\ cron'.status = "error") =>
             /\ pc' = "exit"
             /\ crawl_log' = crawl_log
             /\ db' = db
             /\ file' = file
             /\ ~logged_in'
             /\ hist'.fetched = <<>>
       /\ (entry = "cron" /\ cron.status = "error") =>
             (pc \in {"exit", "exited"} /\ pc' \in {"exited", "idle"}
                 /\ hist.fetched = <<>>
                 /\ db' = db /\ crawl_log' = crawl_log)
      ]_vars

C18_Witness ==
    /\ entry = "cron"
    /\ pc = "exit"
    /\ cron.status = "error"
    /\ ~logged_in
    /\ Statuses(crawl_log) = <<"failed", "failed">>
    /\ db.trades # {}
    /\ ~db.aggregates
    /\ hist.fetched = <<>>

C20_ExitCodeZeroIffSuccessOrSkipped ==
    /\ \A st \in {"success", "skipped", "partial_failure", "error",
                   "unknown"} :
           ExitCode("cron", st) = 0 <=> st \in {"success", "skipped"}
    /\ (entry = "cron" /\ pc = "exited") =>
           /\ cron.status \in {"success", "skipped", "partial_failure",
                                "error"}
           /\ cron.exit_code = 0 <=> cron.status \in {"success", "skipped"}
           /\ cron.exit_code # 0 <=>
                  cron.status \in {"partial_failure", "error"}
    /\ (entry = "cron" /\ pc # "exited") => cron.exit_code = -1

C20_Witness ==
    /\ entry = "cron"
    /\ pc = "exited"
    /\ cron.status = "partial_failure"
    /\ cron.exit_code = 1
    /\ Statuses(crawl_log) = <<"failed">>
\* C21: in every run of run_daily_crawl that aggregates, the crawl log
\* entry of the run is already marked success when compute_all starts.
C21_MarkedSuccessBeforeAggregation ==
    [][(pc = "cron_rate" /\ pc' = "cron_mark")
          => crawl_log[cron.crawl_log_id].status = "success"]_vars

\* C22: when run_daily_crawl returns success on date d, the aggregates of
\* period "today" have period_end = d, the date of the run itself.
C22_TodayAggregatesCarryRunDate ==
    (entry = "cron" /\ pc \in {"exit", "exited"} /\ cron.status = "success")
        => db.today_end = Today(now)

\* C23 as stated: once a run has recorded success for a date, every later
\* run of run_daily_crawl on that date returns skipped and starts no crawl
\* log entry, does not log in, fetches nothing, inserts nothing and does not
\* recompute aggregates; on a non-trading day the run returns skipped and
\* never calls db.connect().
SuccessRecordedFor(d) ==
    \E k \in DOMAIN crawl_log :
        crawl_log[k].crawl_date = d /\ crawl_log[k].status = "success"

CronStarts == pc = "idle" /\ pc' # "idle" /\ entry' = "cron"

RunTouchesNothing ==
    /\ pc' \in {"exit", "exited", "idle"}
    /\ crawl_log' = crawl_log
    /\ db' = db
    /\ logged_in' = FALSE
    /\ hist'.fetched = <<>>
    /\ file' = file

C23_LaterRunsSkipped ==
    [][/\ (CronStarts /\ SuccessRecordedFor(Today(now')))
           => (cron'.status = "skipped" /\ RunTouchesNothing)
       /\ (CronStarts /\ ~hist'.trading_day)
           => (cron'.status = "skipped" /\ hist'.connected = "no"
               /\ RunTouchesNothing)
       /\ (entry = "cron" /\ cron.status = "skipped")
           => RunTouchesNothing]_vars

\* C23 amended: the later run touches nothing and returns skipped, unless
\* its db.connect() fails, and then it returns error.
C23_LaterRunsSkippedOrNoDatabase ==
    [][/\ (CronStarts /\ SuccessRecordedFor(Today(now')))
           => /\ cron'.status =
                    IF hist'.connected = "failed" THEN "error" ELSE "skipped"
              /\ RunTouchesNothing
       /\ (CronStarts /\ ~hist'.trading_day)
           => (cron'.status = "skipped" /\ hist'.connected = "no"
               /\ RunTouchesNothing)
       /\ (entry = "cron"
              /\ \/ cron.status = "skipped"
                 \/ cron.status = "error" /\ hist.connected = "failed")
           => RunTouchesNothing]_vars

\* A second run on the date of a successful one has returned skipped.
C23_Witness ==
    /\ pc = "exited"
    /\ entry = "cron"
    /\ cron.status = "skipped"
    /\ hist.connected = "ok"
    /\ SuccessRecordedFor(Today(now))
    /\ Len(crawl_log) = 1

\* The rows of a table whose five numeric fields can be coerced to
\* numbers, and the number a field then stands for.
Coercible(item) ==
    /\ item.kind = "dict"
    /\ \A k \in DOMAIN NumericFields :
           item[NumericFields[k]].kind \in {"num", "numstr", "absent"}

ValueOf(x) == IF x.kind = "absent" THEN 0 ELSE x.val

\* C24: _parse_table_data never raises and gives one record per row whose
\* five numeric fields can be coerced, in the order of the input; a table
\* with exactly one row of non-numeric netval gives one record fewer than
\* it has rows.
C24_ParserDropsBadRowsOnly ==
    (pc \in {"insert", "raised"} /\ raw # NoRaw)
        => LET good == SelectSeq(raw, Coercible)
           IN  /\ parsed.kind = "rows"
               /\ Len(parsed.rows) = Len(good)
               /\ \A k \in DOMAIN good :
                      \A j \in DOMAIN NumericFields :
                          parsed.rows[k][NumericFields[j]]
                              = ValueOf(good[k][NumericFields[j]])
               /\ (Cardinality({k \in DOMAIN raw : ~Coercible(raw[k])}) = 1
                      => Len(parsed.rows) = Len(raw) - 1)

\* C25: the markdown form "[S](...)" and the plain form "S" both give the
\* symbol S, and parsing a parsed symbol again gives it back unchanged.
C25_SymbolExtractionIdempotent ==
    [][/\ (pc = "parse" /\ pc' = "insert" /\ Len(parsed'.rows) = 1
              /\ Len(raw) = 1)
           => LET sym == raw[1].symbol
                  out == parsed'.rows[1].symbol
              IN  /\ \A j \in 2..(Len(sym) - 1) :
                         (/\ sym[1] = "["
                          /\ sym[j + 1] = "]"
                          /\ \A i \in 2..j : sym[i] \in SymbolChars)
                             => out = SubSeq(sym, 2, j)
                  /\ (\A i \in DOMAIN sym : sym[i] \in SymbolChars)
                         => out = sym
       /\ (pc = "insert" /\ pc' = "reparsed")
           => /\ parsed'.kind = "rows"
              /\ Len(parsed'.rows) = Len(parsed.rows)
              /\ \A k \in DOMAIN parsed.rows :
                     parsed'.rows[k].symbol = parsed.rows[k].symbol]_vars

\* A markdown link was parsed to its symbol, and that symbol parsed again.
C25_Witness ==
    /\ pc = "reparsed"
    /\ raw = <<BaseItem(<<"[", "A", "-", "]">>)>>
    /\ parsed.kind = "rows"
    /\ parsed.rows[1].symbol = <<"A", "-">>

\* C26: _validate_trade rejects every trade whose table_type is missing or
\* is neither "buy" nor "sell".
C26_TableTypeValidated ==
    \A k \in DOMAIN valid_trades :
        valid_trades[k].table_type \in {"buy", "sell"}

\* C27: every record that went through the parser and _validate_trade into
\* storage has bval, sval, bavg and savg >= 0, and a negative netval alone
\* never has a record rejected.
C27_StoredFieldsNonNegative ==
    (pc \in {"inserted", "reinserted"} /\ raw # NoRaw)
        => /\ \A r \in broker_trades :
                  r.bval >= 0 /\ r.sval >= 0 /\ r.bavg >= 0 /\ r.savg >= 0
           /\ \A k \in DOMAIN trades :
                  (/\ trades[k].netval < 0
                   /\ trades[k].bval >= 0 /\ trades[k].sval >= 0
                   /\ trades[k].bavg >= 0 /\ trades[k].savg >= 0
                   /\ trades[k].symbol \in TradeSymbols)
                      => \E j \in DOMAIN valid_trades :
                             valid_trades[j] = trades[k]

\* C28: insert_broker_trades is an upsert by (broker_code, symbol,
\* trade_date): after a call every valid record's key holds the values of
\* the last valid record with that key, also when several records of the
\* batch share a key; the call returns the number of valid records; and a
\* second call with the same batch leaves the rows as they are.
LastWriteWins ==
    /\ inserted.kind = "returned"
    /\ inserted.value = Len(valid_trades)
    /\ \A k \in DOMAIN valid_trades :
           LET t == valid_trades[k]
               same == {j \in DOMAIN valid_trades :
                           /\ valid_trades[j].broker_code = t.broker_code
                           /\ valid_trades[j].symbol = t.symbol
                           /\ valid_trades[j].crawl_date = t.crawl_date}
               last == valid_trades[CHOOSE j \in same : \A i \in same : i <= j]
           IN  \E r \in broker_trades :
                   /\ r.broker_code = t.broker_code
                   /\ r.symbol = t.symbol
                   /\ r.trade_date = t.crawl_date
                   /\ r.netval = last.netval
                   /\ r.bval = last.bval
                   /\ r.sval = last.sval
                   /\ r.bavg = last.bavg
                   /\ r.savg = last.savg

C28_UpsertLastWriteWins ==
    [][/\ (pc = "insert" /\ pc' = "inserted") => LastWriteWins'
       /\ (pc = "inserted" /\ pc' = "reinserted")
           => (LastWriteWins' /\ broker_trades' = broker_trades)]_vars

\* C29: login() with an empty username or password returns failure, sends
\* no request and leaves the session state as it was.
C29_NoCredentialsNoRequest ==
    [][(pc \in {"cron_login", "cli_login"} /\ pc' # "idle"
          /\ ~config.has_credentials)
          => /\ pc' = "exit"
             /\ cron'.status \in {"error", "exit1"}
             /\ ~hist'.login_sent
             /\ logged_in' = logged_in
             /\ session_created_at' = session_created_at]_vars

\* A cron run without credentials has ended at its login.
C29_Witness ==
    /\ ~config.has_credentials
    /\ entry = "cron"
    /\ pc = "exit"
    /\ cron.status = "error"
    /\ cron.crawl_log_id = 1
    /\ crawl_log[1].status = "failed"
    /\ ~hist.login_sent
    /\ ~logged_in
    /\ session_created_at = -1

\* C30: in a run of crawl_all_brokers the loop sleeps after every entity
\* but the last and not after the last, and the checkpoint of an entity is
\* on disk before that sleep and before anything is requested for the next
\* entity.
C30_SleepBetweenEntitiesAfterCheckpoint ==
    (entry \in {"cron", "cli"} /\ pc \in LoopPcs \cup {"crawled"})
        => /\ \A k \in DOMAIN hist.sleeps :
                  /\ hist.sleeps[k] + 1 < Len(brokers)
                  /\ \E j \in DOMAIN hist.fetched :
                         hist.fetched[j] = hist.sleeps[k]
           /\ \A j \in DOMAIN hist.fetched :
                  j > 1 => \E k \in DOMAIN hist.sleeps :
                               hist.sleeps[k] + 1 = hist.fetched[j]
           /\ (pc = "crawled" /\ hist.fetched # <<>>)
                  => Len(hist.sleeps) = Len(hist.fetched) - 1
           /\ pc = "sleep"
                  => (file.kind = "checkpoint"
                          /\ file.last_broker_index = idx)
           /\ (pc \in {"loop", "fetch", "send", "sent"}
                  /\ \E j \in DOMAIN hist.fetched : hist.fetched[j] < idx)
                  => (file.kind = "checkpoint"
                          /\ file.last_broker_index = idx - 1)

\* A run over three entities has ended: two sleeps, none after the last.
C30_Witness ==
    /\ entry = "cron"
    /\ pc = "crawled"
    /\ Len(brokers) = 3
    /\ hist.fetched = <<0, 1, 2>>
    /\ hist.sleeps = <<0, 1>>
    /\ now = session_max_age_minutes

\* C31: in a resumed run every saved checkpoint carries the started_at of
\* the loaded checkpoint and the duration is the end time minus that
\* started_at; in a run that did not resume both use the start of the run.
ResumedRun == resume /\ hist.found.kind = "checkpoint"

OriginalStart == IF ResumedRun THEN hist.found.started_at ELSE start_time

C31_StartedAtSurvivesResume ==
    (entry \in {"cron", "cli"})
        => /\ (pc = "sleep" /\ file.kind = "checkpoint")
                  => file.started_at = OriginalStart
           /\ (pc = "crawled" /\ result.kind = "result")
                  => result.duration = now - OriginalStart

\* A resumed run, begun later than the checkpoint it loaded, has saved a
\* checkpoint of its own.
C31_Witness ==
    /\ entry = "cli"
    /\ pc = "sleep"
    /\ ResumedRun
    /\ start_time > hist.found.started_at
    /\ file.kind = "checkpoint"
    /\ file.last_broker_index > hist.found.last_broker_index
    /\ file.started_at = hist.found.started_at

\* C32: _is_session_expired returns true exactly when the session was never
\* created or its age is at least session_max_age_minutes (an age equal to
\* the threshold counts as expired), and it changes no state.
C32_ExpiredIffNeverCreatedOrOld ==
    [][(pc = "expiry" /\ pc' = "expiry_done")
          => /\ hist'.expired = "yes"
                    <=> \/ session_created_at = -1
                        \/ now - session_created_at >= session_max_age_minutes
             /\ logged_in' = logged_in
             /\ session_created_at' = session_created_at
             /\ now' = now]_vars

\* A session exactly session_max_age_minutes old was found expired.
C32_Witness ==
    /\ pc = "expiry_done"
    /\ session_created_at >= 0
    /\ now - session_created_at = session_max_age_minutes
    /\ hist.expired = "yes"


\* A container without a child that is a dict of type "DataTable", and
\* the data of the first such child of a container that has one.
NoDataTableChild(component) ==
    \A k \in DOMAIN component.children :
        ~(component.children[k].kind = "dict"
             /\ component.children[k].type = "DataTable")

TableOf(component) ==
    LET k == CHOOSE j \in DOMAIN component.children :
                 /\ component.children[j].type = "DataTable"
                 /\ \A i \in 1..(j - 1) :
                        component.children[i].type # "DataTable"
    IN  component.children[k].data

Other(cat) == IF cat = "buy" THEN "sell" ELSE "buy"

\* C33: when the container of one category has no DataTable child,
\* fetch_broker_data raises nothing and returns the records parsed from
\* the table of the other category, all of them of that category.
C33_MissingTableIsNoData ==
    [][(pc = "sent" /\ pc' = "fetched" /\ response.kind = "json"
           /\ response.body.kind = "components")
          => \A cat \in {"buy", "sell"} :
                 (/\ NoDataTableChild(response.body[cat])
                  /\ ~NoDataTableChild(response.body[Other(cat)])
                  /\ response.body[Other(cat)].children
                         \in {<<DataTable(d)>> : d \in Tables}
                  /\ \A k \in DOMAIN TableOf(response.body[Other(cat)]) :
                         Coercible(TableOf(response.body[Other(cat)])[k]))
                     => /\ parsed'.kind = "rows"
                        /\ Len(parsed'.rows)
                               = Len(TableOf(response.body[Other(cat)]))
                        /\ \A k \in DOMAIN parsed'.rows :
                               parsed'.rows[k].table_type = Other(cat)]_vars

\* A step that is the call of a cached endpoint with key k.
IsCachedCall(k) ==
    /\ pc = "api"
    /\ api'.calls = api.calls + 1
    /\ api'.last.kind \in {"hit", "miss", "raised"}
    /\ api'.last.key = k

\* A hit serves nothing stored before the last clear, and a call that
\* raises leaves the cache as it was.
ClearedAndFailedNeverServed ==
    \A k \in CacheKeys :
        IsCachedCall(k)
            => /\ api'.last.kind = "hit"
                      => /\ api'.last.value.epoch = api.clears
                         /\ ~api'.last.value.raised
               /\ api'.last.kind = "raised" => api_cache' = api_cache

\* C34 as stated: a call with the key of an earlier call that returned,
\* with no clear in between, does not run the endpoint and returns the
\* result of that earlier call.
C34_SecondCallServedFromCache ==
    [][/\ \A k \in CacheKeys :
              (IsCachedCall(k) /\ api.last_ok[k] # NoEntry)
                  => /\ api'.last.kind = "hit"
                     /\ ~api'.last.executed
                     /\ api'.last.value = api.last_ok[k].value
       /\ ClearedAndFailedNeverServed]_vars

\* C34: a call with the key of an earlier call that returned, with no
\* clear in between and while the item stored for it has neither expired
\* nor been pushed out, does not run the endpoint and returns the result
\* of that earlier call; after clear_api_cache() and refresh_cache_ttl()
\* nothing stored before the clear is served, and a call that raises
\* stores nothing.
C34_SecondCallServedWhileStored ==
    [][/\ \A k \in CacheKeys :
              (/\ IsCachedCall(k)
               /\ api.last_ok[k] # NoEntry
               /\ ~api.last_ok[k].evicted
               /\ now < api.last_ok[k].valid_until)
                  => /\ api'.last.kind = "hit"
                     /\ ~api'.last.executed
                     /\ api'.last.value = api.last_ok[k].value
       /\ ClearedAndFailedNeverServed]_vars

C34_Witness ==
    /\ pc = "api"
    /\ api.clears > 0
    /\ api.last.kind = "hit"
    /\ api.last.value.epoch = api.clears
    /\ api.last.value.version < api.version

\* C35: each POST of _send_dash_request is made with _logged_in true, and
\* fetch_broker_data called while logged out returns no rows and sends
\* nothing.
C35_NoRequestWhileLoggedOut ==
    [][/\ (pc = "send" /\ attempt < config.max_retries) => logged_in
       /\ (pc = "fetch" /\ pc' \in {"send", "fetched"} /\ ~logged_in)
              => /\ pc' = "fetched"
                 /\ rows' = NoRows
                 /\ UNCHANGED <<attempt, response, trace>>]_vars

C35_Witness ==
    /\ pc = "fetched"
    /\ ~logged_in
    /\ rows = NoRows
    /\ hist.unsent # <<>>
    /\ hist.unsent[Len(hist.unsent)] = idx
    /\ hist.ok # <<>>

\* crawl_all_brokers is in its loop and a session refresh has failed.
LoggedOutInRun ==
    /\ entry \in {"cron", "cli"}
    /\ pc \in LoopPcs
    /\ ~logged_in

\* C36: after a failed session refresh the loop of crawl_all_brokers
\* stays logged out: no login is tried, no request is sent, and the
\* entity at hand and every later one goes to the failed list.
C36_LoggedOutForTheRestOfTheRun ==
    [][(LoggedOutInRun /\ pc' \in LoopPcs \cup {"crawled"})
          => /\ ~logged_in'
             /\ session_created_at' = session_created_at
             /\ pc' # "send"
             /\ pc = "loop"
                   => \A lo \in LoginOutcomes :
                          ensure_session_valid(
                              Session(logged_in, session_created_at), lo,
                              now).logins = 0
             /\ pc = "fetched"
                   => /\ failed_brokers'
                             = Append(failed_brokers, brokers[idx + 1])
                      /\ successful_brokers' = successful_brokers]_vars

C36_Witness ==
    /\ entry = "cli"
    /\ pc = "save"
    /\ ~logged_in
    /\ hist.ok = <<0>>
    /\ hist.failed = <<1, 2>>
    /\ hist.unsent = <<2>>
    /\ successful_brokers = <<"A">>
    /\ failed_brokers = <<"B", "C">>

\* C37: an entity goes to the successful list when its fetch gave at
\* least one record, and to the failed list when it gave none: no
\* DataTable in either category, empty tables, rows that were all
\* dropped, or an exception.
C37_SuccessIffRecords ==
    (entry = "cli" /\ pc = "save" /\ parsed # NoParsed)
        => LET code == brokers[idx + 1]
               n == IF parsed.kind = "rows" THEN Len(parsed.rows) ELSE 0
           IN  /\ n >= 1 <=> successful_brokers = <<code>>
               /\ n = 0 <=> failed_brokers = <<code>>
               /\ n = 0 <=> successful_brokers = <<>>
               /\ n >= 1 <=> failed_brokers = <<>>
               /\ Len(all_data) = n

C37_Witness ==
    /\ entry = "cli"
    /\ pc = "save"
    /\ response.kind = "json"
    /\ response.body.kind = "components"
    /\ response.body.buy
           = Component("children",
                       <<DataTable(<<[BaseItem(<<"A", "A">>)
                                         EXCEPT !.netval = Text]>>)>>)
    /\ response.body.sell = Component("children", <<LabelChild>>)
    /\ parsed = [kind |-> "rows", rows |-> <<>>]
    /\ failed_brokers = <<"A">>
    /\ successful_brokers = <<>>

\* C38: when run_daily_crawl returns after it started a log entry, that
\* entry is no longer running: it is success when the run reports
\* success, and failed after a login failure, a low success rate or an
\* exception.
C38_StartedLogEntryIsClosed ==
    (entry = "cron" /\ pc \in {"exit", "exited"} /\ cron.crawl_log_id > 0)
        => LET status == crawl_log[cron.crawl_log_id].status
           IN  /\ status \in {"success", "failed"}
               /\ status = "success" <=> cron.status = "success"
               /\ status = "failed"
                      <=> cron.status \in {"error", "partial_failure"}

C38_Witness ==
    /\ entry = "cron"
    /\ pc = "exit"
    /\ cron.crawl_log_id > 0
    /\ cron.status = "error"
    /\ hist.ok # <<>>
    /\ crawl_log[cron.crawl_log_id].status = "failed"
    /\ \E k \in DOMAIN crawl_log : crawl_log[k].status = "running"

\* C39: whatever the remote service answers, each call of
\* _send_dash_request comes to its end and crawl_all_brokers returns its
\* summary.
C39_CrawlTerminates ==
    /\ (pc = "send") ~> (pc = "sent")
    /\ (pc = "crawl") ~> (pc = "crawled" /\ result.kind = "result")

C39_Witness ==
    /\ pc = "crawled"
    /\ result.kind = "result"
    /\ config.max_retries > 1
    /\ Len(brokers) = MaxBrokers
    /\ result.successful_broker_codes = <<"B">>
    /\ result.failed_broker_codes = <<"A", "C">>
    /\ ~logged_in
    /\ hist.unsent = <<>>

\* C40: the resumed flag of the summary is true exactly when resume was
\* asked for and the checkpoint file held a checkpoint that parsed and
\* was fresh; without resume the run starts at index 0 with empty lists
\* whatever the file holds, and its first save replaces the file.
C40_ResumedIffCheckpointLoaded ==
    [][/\ (pc' = "crawled" /\ pc # "crawled" /\ result'.kind = "result")
              => (result'.resumed
                      <=> (resume /\ hist.found.kind = "checkpoint"))
       /\ (pc = "crawl" /\ pc' = "loop")
              => /\ (resume /\ file.kind = "checkpoint"
                        /\ now - file.started_at <= CheckpointMaxAgeMinutes)
                       <=> checkpoint'.kind = "checkpoint"
                 /\ ~resume
                       => /\ idx' = 0
                          /\ all_data' = <<>>
                          /\ successful_brokers' = <<>>
                          /\ failed_brokers' = <<>>
                          /\ file' = file
       /\ (pc = "save_write" /\ pc' = "sleep" /\ ~resume /\ idx = 0)
              => /\ file'.kind = "checkpoint"
                 /\ file'.started_at = start_time
                 /\ file'.last_broker_index = 0
                 /\ Len(file'.completed_brokers) + Len(file'.failed_brokers)
                        = 1]_vars

C40_Witness ==
    /\ pc = "crawled"
    /\ ~resume
    /\ hist.found.kind = "checkpoint"
    /\ hist.found.last_broker_index >= 1
    /\ result.kind = "result"
    /\ ~result.resumed
    /\ hist.fetched = Indices(0, Len(brokers))
    /\ hist.cleared = "finish"
====
